---- MODULE Spec2Model ----
(***************************************************************************)
(* Model of yogson/slow-workers-challenge.                                  *)
(*                                                                         *)
(*  - the batcher JobManager of src/src/job/manager.py (request batching   *)
(*    by size and age, hand-over of batches to the RQ queue);              *)
(*  - the worker Job of src/services/worker/job/processor.py (concurrent   *)
(*    processing of the requests of one batch under a semaphore);          *)
(*  - the worker JobManager of src/services/worker/core/manager.py (global *)
(*    ceiling on concurrently running Jobs).                               *)
(*                                                                         *)
(* All three run on one asyncio event loop: a coroutine runs without       *)
(* interruption from one suspension point (an await that really blocks) to *)
(* the next, so each action below is one such run.                         *)
(***************************************************************************)
EXTENDS Integers, Sequences, FiniteSets, TLC

(***************************************************************************)
(* Bounds of the model and program constants.                              *)
(***************************************************************************)
\* JobManager.__init__ defaults, src/src/job/manager.py:26-27
batch_window_ms == 250
max_requests_per_job == 4

\* granularity of the clock (datetime.now()), in milliseconds
TickMs == 50
\* the clock stops after MaxTicks ticks
MaxTicks == 6
\* number of process_request calls issued by the callers
MaxRequests == 5
\* number of close() calls
MaxCloses == 2

\* number of requests of the batch a worker Job is built from
NumRequests == 3
\* max_concurrent_requests given to the Job (processor.py:24 defaults it to 4)
max_concurrent_requests == 2
\* number of fragments the generator yields for a request
GenLen == 1
\* number of run() calls on the Job when re-entry is explored
MaxRunCalls == 2

\* JobManager.__init__ default of the worker, src/services/worker/core/manager.py:22
worker_batch_window_ms == 250
\* max_concurrent_jobs given to the worker JobManager (manager.py:23 defaults it to 5)
max_concurrent_jobs == 1
\* max_requests_per_job given to the worker JobManager (manager.py:24 defaults it to 100)
worker_max_requests_per_job == 3
\* number of requests pushed to the request source
NumSourceRequests == 3
\* number of Jobs the worker JobManager creates
MaxJobs == 3

\* number of requests submitted while the RQ worker is followed
MaxDispatchRequests == 2

\* largest counter and largest processing time (ms) of a JobMetrics
MaxMetric == 4

VARIABLES
    \* ---- batcher JobManager (src/src/job/manager.py)
    now,          \* datetime.now(), in ms
    batch,        \* self.__batch : <<>> (None) or <<[created_at, requests]>>
    enqueued,     \* the arguments of the successful self._queue.enqueue calls, in order
    accepted,     \* ids of the requests process_request appended, in order
    next_rid,     \* id the next caller of process_request brings (uuid4 of the handler)
    closes,       \* number of close() calls made
    bcall,        \* the call of the batcher that ran last, and what it saw
    \* ---- worker Job (src/services/worker/job/processor.py)
    is_running,         \* Job._is_running
    is_cancelled,       \* Job._is_cancelled
    request_semaphore,  \* Job._request_semaphore: its value, and whether the slot
                        \* of the waiting run() has been handed over (granted)
    run_pc,             \* where run() is: "idle", "acquire", "gather"
    run_idx,            \* index of the request run() is acquiring a slot for
    run_wait,           \* tasks the gather of run() waits for
    task_pc,            \* per request: where its process_request task is
    must_cancel,        \* per request: task.cancel() was called on its live task
    gen_left,           \* per request: fragments the generator has not yielded yet
    rp_status,          \* per request: its state in the result processor
    rp_log,             \* per request: the result-processor calls made for it, in order
    metrics,            \* Job.metrics
    job_results,        \* the JobResults run() returned, in order
    run_calls,          \* run() calls that entered Running
    run_rejected,       \* run() calls that raised RuntimeError
    cancel_pc,          \* where cancel() is: "idle", "waiting"
    cancel_wait,        \* tasks the gather of the last cancel() waits/waited for
    cancel_calls,       \* cancel() calls made
    \* ---- worker JobManager (src/services/worker/core/manager.py)
    mgr_is_running,       \* JobManager._is_running
    mgr_is_shutting_down, \* JobManager._is_shutting_down
    job_semaphore,        \* JobManager._job_semaphore: value, and slot handed to the waiter
    active_jobs,          \* JobManager._active_jobs (job numbers)
    mgr_pc,               \* where run() is: "idle", "get_requests", "acquire", "sleep", "stopped"
    pending_batches,      \* batches of the current for loop not yet dispatched
    jobs,                 \* the Jobs created so far: [state, requests, cancelled, outcome]
    src_queue,            \* the Redis list the request source reads
    src_processed,        \* the Redis set of processed request ids
    shutdown_pc,          \* where shutdown() is: "idle", "waiting", "closing", "done"
    shutdown_cancels,     \* Jobs whose cancel(), gathered by shutdown(), has not started
    shutdown_wait,        \* Jobs whose cancel() waits for the tasks of the Job
    shutdown_jobs,        \* Jobs that were in _active_jobs when shutdown() was called
    shutdown_unstarted,   \* those of them whose _process_job task had not started
    \* ---- RQ worker running process_batch (src/src/job/processor.py) on Redis
    rq_pc,                \* "idle", or "running" while process_batch runs a job
    rq_done,              \* number of enqueued jobs the RQ worker has taken
    pp_pc,                \* per request id: where its process_prompt is
    pp_left,              \* per request id: characters the generator has not yielded yet
    redis_status,         \* per request id: the Redis key status:<id>
    redis_response,       \* per request id: the Redis key response:<id>
    \* ---- JobMetrics (src/src/job/models.py, src/services/worker/job/models.py)
    jm,                   \* a JobMetrics instance
    jm_read,              \* the property of jm read last, and its value
    \* ---- the coroutines of the API process that call the batcher
    co_pc,                \* per coroutine: the statement it is at
    loop_owner,           \* the coroutine the event loop is running, if any
    \* ---- the streaming loop of api.handlers.process_request
    poll_pc,              \* per request id: where the polling loop of its handler is
    poll_last,            \* per request id: the status of the last event sent
    poll_text,            \* per request id: the response text last read
    \* ---- one call of _batch_requests of the worker JobManager
    br_pc,                \* "called" | "returned"
    br_requests,          \* the argument: a list of JobRequests
    br_batches            \* the value returned

batcherVars == <<now, batch, enqueued, accepted, next_rid, closes, bcall>>

jobVars == <<is_running, is_cancelled, request_semaphore, run_pc, run_idx, run_wait,
             task_pc, must_cancel, gen_left, rp_status, rp_log, metrics, job_results,
             run_calls, run_rejected, cancel_pc, cancel_wait, cancel_calls>>

mgrVars == <<mgr_is_running, mgr_is_shutting_down, job_semaphore, active_jobs, mgr_pc,
             pending_batches, jobs, src_queue, src_processed, shutdown_pc,
             shutdown_cancels, shutdown_wait, shutdown_jobs, shutdown_unstarted>>

rqVars == <<rq_pc, rq_done, pp_pc, pp_left, redis_status, redis_response>>

jmVars == <<jm, jm_read>>

loopVars == <<co_pc, loop_owner>>

pollVars == <<poll_pc, poll_last, poll_text>>

brVars == <<br_pc, br_requests, br_batches>>

vars == <<batcherVars, jobVars, mgrVars, rqVars, jmVars, loopVars, pollVars, brVars>>

(***************************************************************************)
(* Batcher JobManager: src/src/job/manager.py                              *)
(***************************************************************************)

\* prompts a caller may send: JobRequest rejects the empty one
Prompts == {"", "hi"}

\* str(req.id) of _create_job: the UUID rendered as text
uuid_str(id) == <<"uuid", id>>

\* a JobRequest that accepts every prompt
JobRequest_valid_any(prompt) == TRUE

\* JobRequest(id=rid, prompt=prompt): __post_init__ raises ValueError on an empty prompt
JobRequest_valid(prompt) == prompt # ""

JobRequest(rid, prompt) == [id |-> rid, prompt |-> prompt]

\* a batch dated from the start of the manager rather than from now
new_batch_at_start(t) == [created_at |-> 0, requests |-> <<>>]

\* _new_batch: Batch(created_at=datetime.now(), requests=list())
new_batch(t) == [created_at |-> t, requests |-> <<>>]

has_batch(b) == b # <<>>

batch_size(b) == Len(b[1].requests)

batch_requests(b) == IF ~has_batch(b) THEN <<>> ELSE b[1].requests

\* a batch counted full only once it exceeds max_requests_per_job
batch_is_full_strict(b) == batch_size(b) > max_requests_per_job

batch_is_full(b) == batch_size(b) >= max_requests_per_job

batch_age(b, t) == IF has_batch(b) THEN t - b[1].created_at ELSE 0

clear_batch == <<>>

add_to_batch(b, req, t) ==
    LET b1 == IF ~has_batch(b) THEN <<new_batch(t)>> ELSE b
    IN  <<[b1[1] EXCEPT !.requests = Append(@, req)]>>

\* requests_data of _create_job
requests_data(reqs) ==
    [i \in 1..Len(reqs) |-> [id |-> uuid_str(reqs[i].id), prompt |-> reqs[i].prompt]]

\* _create_job: self._queue.enqueue(process_batch, requests_data, ...)
create_job(q, reqs) == Append(q, requests_data(reqs))

\* the age compared with > instead of >=
purge_ready_strict(b, t) == batch_age(b, t) > batch_window_ms \/ batch_is_full(b)

\* the condition of purge under which the batch is dispatched
purge_ready(b, t) == batch_age(b, t) >= batch_window_ms \/ batch_is_full(b)

\* a purge that dispatches a full batch only, whatever its age
purge_step_size_only(s, t) ==
    IF ~has_batch(s.batch) THEN s
    ELSE IF batch_is_full(s.batch)
         THEN [batch |-> clear_batch, queue |-> create_job(s.queue, batch_requests(s.batch))]
         ELSE s

\* purge(), as a function of the manager's state s = [batch, queue] and the clock
purge_step(s, t) ==
    IF ~has_batch(s.batch) THEN s
    ELSE IF purge_ready(s.batch, t)
         THEN [batch |-> clear_batch, queue |-> create_job(s.queue, batch_requests(s.batch))]
         ELSE s

\* a close() that enqueues whatever batch_requests returns, even nothing
close_step_always(s) ==
    [batch |-> s.batch, queue |-> create_job(s.queue, batch_requests(s.batch))]

\* a close() that only closes the connection
close_step_no_flush(s) == s

\* close(), on the same state: the batch is enqueued and stays the current batch
close_step(s) ==
    IF batch_requests(s.batch) # <<>>
    THEN [batch |-> s.batch, queue |-> create_job(s.queue, batch_requests(s.batch))]
    ELSE s

BatcherState == [batch |-> batch, queue |-> enqueued]

\* await job_manager.process_request(rid, prompt): purge, _add_request, purge.
\* No await inside really suspends (the queue's enqueue is synchronous), so the
\* call is one step of the event loop.
process_request ==
    /\ next_rid <= MaxRequests
    /\ \E prompt \in Prompts :
         LET s1 == purge_step(BatcherState, now)
         IN  IF ~JobRequest_valid(prompt)
             THEN \* ValueError from JobRequest.__post_init__ leaves process_request
                  /\ batch' = s1.batch
                  /\ enqueued' = s1.queue
                  /\ accepted' = accepted
                  /\ bcall' = [op |-> "process_request", rid |-> next_rid, prompt |-> prompt,
                               raised |-> TRUE, size_after_add |-> 0,
                               enq |-> Len(s1.queue) - Len(enqueued)]
             ELSE LET s2 == [s1 EXCEPT !.batch =
                                 add_to_batch(s1.batch, JobRequest(next_rid, prompt), now)]
                      s3 == purge_step(s2, now)
                  IN  /\ batch' = s3.batch
                      /\ enqueued' = s3.queue
                      /\ accepted' = Append(accepted, next_rid)
                      /\ bcall' = [op |-> "process_request", rid |-> next_rid,
                                   prompt |-> prompt, raised |-> FALSE,
                                   size_after_add |-> batch_size(s2.batch),
                                   enq |-> Len(s3.queue) - Len(enqueued)]
    /\ next_rid' = next_rid + 1
    /\ UNCHANGED <<now, closes>>
    /\ UNCHANGED <<jobVars, mgrVars, rqVars, jmVars, loopVars, pollVars, brVars>>

\* await job_manager.purge(): the periodic purge task, or a direct call
purge ==
    /\ LET s1 == purge_step(BatcherState, now)
       IN  /\ batch' = s1.batch
           /\ enqueued' = s1.queue
           /\ bcall' = [op |-> "purge", rid |-> 0, prompt |-> "-", raised |-> FALSE,
                        size_after_add |-> 0,
                        enq |-> Len(s1.queue) - Len(enqueued)]
    /\ UNCHANGED <<now, accepted, next_rid, closes>>
    /\ UNCHANGED <<jobVars, mgrVars, rqVars, jmVars, loopVars, pollVars, brVars>>

\* await job_manager.process_request(rid, prompt) while the queue is down: the
\* first self._queue.enqueue the call reaches raises. Nothing in purge() or
\* process_request catches it: _clear_batch() and whatever follows are skipped.
process_request_enqueue_fails ==
    /\ next_rid <= MaxRequests
    /\ \E prompt \in Prompts :
         /\ JobRequest_valid(prompt)
         /\ IF has_batch(batch) /\ purge_ready(batch, now)
            THEN \* the purge() before _add_request raises
                 /\ UNCHANGED <<batch, accepted>>
                 /\ bcall' = [op |-> "process_request", rid |-> next_rid, prompt |-> prompt,
                              raised |-> TRUE, size_after_add |-> 0, enq |-> 0]
            ELSE LET b2 == add_to_batch(batch, JobRequest(next_rid, prompt), now)
                 IN  \* the purge() after _add_request raises
                     /\ purge_ready(b2, now)
                     /\ batch' = b2
                     /\ accepted' = Append(accepted, next_rid)
                     /\ bcall' = [op |-> "process_request", rid |-> next_rid,
                                  prompt |-> prompt, raised |-> TRUE,
                                  size_after_add |-> batch_size(b2), enq |-> 0]
    /\ next_rid' = next_rid + 1
    /\ UNCHANGED <<now, enqueued, closes>>
    /\ UNCHANGED <<jobVars, mgrVars, rqVars, jmVars, loopVars, pollVars, brVars>>

\* await job_manager.purge() of the periodic task while the queue is down: the
\* exception is logged by _periodic_purge (main.py:85-86), the batch is kept
purge_enqueue_fails ==
    /\ has_batch(batch) /\ purge_ready(batch, now)
    /\ bcall' = [op |-> "purge", rid |-> 0, prompt |-> "-", raised |-> TRUE,
                 size_after_add |-> 0, enq |-> 0]
    /\ UNCHANGED <<now, batch, enqueued, accepted, next_rid, closes>>
    /\ UNCHANGED <<jobVars, mgrVars, rqVars, jmVars, loopVars, pollVars, brVars>>

\* await job_manager.close()
close ==
    /\ closes < MaxCloses
    /\ LET s1 == close_step(BatcherState)
       IN  /\ batch' = s1.batch
           /\ enqueued' = s1.queue
           /\ bcall' = [op |-> "close", rid |-> 0, prompt |-> "-", raised |-> FALSE,
                        size_after_add |-> 0,
                        enq |-> Len(s1.queue) - Len(enqueued)]
    /\ closes' = closes + 1
    /\ UNCHANGED <<now, accepted, next_rid>>
    /\ UNCHANGED <<jobVars, mgrVars, rqVars, jmVars, loopVars, pollVars, brVars>>

\* time passes between two calls
Tick ==
    /\ now < MaxTicks * TickMs
    /\ now' = now + TickMs
    /\ bcall' = [op |-> "tick", rid |-> 0, prompt |-> "-", raised |-> FALSE,
                 size_after_add |-> 0, enq |-> 0]
    /\ UNCHANGED <<batch, enqueued, accepted, next_rid, closes>>
    /\ UNCHANGED <<jobVars, mgrVars, rqVars, jmVars, loopVars, pollVars, brVars>>

InitBatcher ==
    /\ now = 0
    /\ batch = <<>>
    /\ enqueued = <<>>
    /\ accepted = <<>>
    /\ next_rid = 1
    /\ closes = 0
    /\ bcall = [op |-> "init", rid |-> 0, prompt |-> "-", raised |-> FALSE,
                size_after_add |-> 0, enq |-> 0]


(***************************************************************************)
(* The coroutines that share the batcher JobManager on the event loop of   *)
(* the API process: one handler per HTTP request (api/handlers.py:28) and  *)
(* the periodic purge task (main.py:80-87).  A coroutine keeps the loop    *)
(* until it reaches an await that suspends it.                             *)
(***************************************************************************)

\* number of handlers that call process_request concurrently
NumCallers == 4

\* _batch_requests: the longest list of requests, and their creation times as
\* multiples of TimeStepMs
MaxBatchInput == 5

MaxTimeSteps == 4

TimeStepMs == 125

Callers == 1..NumCallers

\* coroutine 0 is the periodic purge task
Coroutines == 0..NumCallers

IsPurgeTask(c) == c = 0

\* an enqueue whose await suspends the caller until the queue has answered
enqueue_suspends(c) == {}

\* self._queue.enqueue(...) of _create_job is a plain blocking call of rq: the
\* coroutine that awaits _create_job is not suspended and keeps the event loop
enqueue_returns(c) == {c}

\* the statement after a purge() that is over
after_purge(pc) ==
    CASE pc \in {"purge1", "clear1"} -> "add"
      [] pc \in {"purge2", "clear2"} -> "done"
      [] OTHER -> "purge"

\* whether the coroutine is suspended once it has reached the statement
suspended_at(pc) == pc \in {"done", "purge"}

\* the coroutine may take its next step: the loop is free or runs it
may_run(c) == loop_owner \subseteq {c}

\* purge() up to `await self._create_job(self._batch_requests)`
co_purge_check(c) ==
    /\ may_run(c)
    /\ co_pc[c] \in {"purge1", "purge2", "purge"}
    /\ IF has_batch(batch) /\ purge_ready(batch, now)
       THEN /\ enqueued' = create_job(enqueued, batch_requests(batch))
            /\ co_pc' = [co_pc EXCEPT ![c] =
                            CASE @ = "purge1" -> "clear1"
                              [] @ = "purge2" -> "clear2"
                              [] OTHER -> "clear"]
            /\ loop_owner' = enqueue_returns(c)
       ELSE /\ enqueued' = enqueued
            /\ co_pc' = [co_pc EXCEPT ![c] = after_purge(@)]
            /\ loop_owner' = IF suspended_at(after_purge(co_pc[c])) THEN {} ELSE {c}
    /\ UNCHANGED <<now, batch, accepted, next_rid, closes, bcall>>
    /\ UNCHANGED <<jobVars, mgrVars, rqVars, jmVars, pollVars, brVars>>

\* self._clear_batch() of purge(), and the return of purge()
co_clear(c) ==
    /\ may_run(c)
    /\ co_pc[c] \in {"clear1", "clear2", "clear"}
    /\ batch' = clear_batch
    /\ co_pc' = [co_pc EXCEPT ![c] = after_purge(@)]
    /\ loop_owner' = IF suspended_at(after_purge(co_pc[c])) THEN {} ELSE {c}
    /\ UNCHANGED <<now, enqueued, accepted, next_rid, closes, bcall>>
    /\ UNCHANGED <<jobVars, mgrVars, rqVars, jmVars, pollVars, brVars>>

\* self._add_request(rid=rid, prompt=prompt) of process_request
co_add(c) ==
    /\ may_run(c)
    /\ co_pc[c] = "add"
    /\ batch' = add_to_batch(batch, JobRequest(c, "hi"), now)
    /\ accepted' = Append(accepted, c)
    /\ co_pc' = [co_pc EXCEPT ![c] = "purge2"]
    /\ loop_owner' = {c}
    /\ UNCHANGED <<now, enqueued, next_rid, closes, bcall>>
    /\ UNCHANGED <<jobVars, mgrVars, rqVars, jmVars, pollVars, brVars>>

\* every handler is about to call process_request, the purge task is started
InitLoop ==
    /\ co_pc = [c \in Coroutines |-> IF IsPurgeTask(c) THEN "purge" ELSE "purge1"]
    /\ loop_owner = {}

co_step == \E c \in Coroutines : co_purge_check(c) \/ co_clear(c) \/ co_add(c)

NextLoop == co_step \/ Tick


(***************************************************************************)
(* Worker Job: src/services/worker/job/processor.py                        *)
(*                                                                         *)
(* A process_request task is suspended in one of its awaits:               *)
(*   "created"     scheduled by create_task, not yet started               *)
(*   "init"        in result_processor.initialize_result                   *)
(*   "gen"         in the generator (asyncio.sleep before a fragment)      *)
(*   "append"      in result_processor.append_result                       *)
(*   "finalize"    in result_processor.finalize_result                     *)
(*   "mark_error"  in result_processor.mark_error                          *)
(* or is done: "returned_ok" (after finalize_result), "returned_err"       *)
(* (after mark_error), "raised" (mark_error raised), "cancelled"           *)
(* (CancelledError left the task).                                         *)
(***************************************************************************)

Requests == 1..NumRequests

TaskDone(pc) == pc \in {"returned_ok", "returned_err", "raised", "cancelled"}

TaskLive(pc) == pc # "none" /\ ~TaskDone(pc)

\* Job._active_tasks: the tasks created and not yet done
active_tasks(tp) == {r \in Requests : TaskLive(tp[r])}

\* asyncio.Semaphore.release(): the slot goes to the waiting run(), if any
sem_release(s, waiting) ==
    IF waiting /\ ~s.granted
    THEN [s EXCEPT !.granted = TRUE]
    ELSE [s EXCEPT !.value = @ + 1]

\* a failure counted as a success
count_failure_as_success(m) == [m EXCEPT !.successful_requests = @ + 1]

\* except Exception: self.metrics.failed_requests += 1
count_failure(m) == [m EXCEPT !.failed_requests = @ + 1]

count_success(m) == [m EXCEPT !.successful_requests = @ + 1]

\* a status rule that reports FAILED as soon as one request failed
final_status_any_failure(cancelled, m) ==
    IF cancelled THEN "cancelled"
    ELSE IF m.failed_requests > 0 THEN "failed"
    ELSE "completed"

\* run(): "Determine the final status"
final_status(cancelled, m) ==
    IF cancelled THEN "cancelled"
    ELSE IF m.failed_requests > 0
         THEN IF m.failed_requests = m.total_requests
              THEN "failed"
              ELSE "partially_completed"
         ELSE "completed"

JobResult(status, error, m) == [status |-> status, error |-> error, metrics |-> m]

\* a loop that creates every task without waiting for a slot
RECURSIVE run_loop_no_acquire(_, _, _, _, _)
run_loop_no_acquire(i, v, tp, have, cancelled) ==
    IF i > NumRequests
    THEN [pc |-> "after_loop", idx |-> i, value |-> v, tp |-> tp]
    ELSE IF cancelled
         THEN [pc |-> "after_loop", idx |-> i, value |-> v, tp |-> tp]
         ELSE run_loop_no_acquire(i + 1, v, [tp EXCEPT ![i] = "created"], FALSE, cancelled)

\* a loop that does not look at _is_cancelled after it got a slot
RECURSIVE run_loop_ignore_cancel(_, _, _, _, _)
run_loop_ignore_cancel(i, v, tp, have, cancelled) ==
    IF i > NumRequests
    THEN [pc |-> "after_loop", idx |-> i, value |-> v, tp |-> tp]
    ELSE IF ~have /\ v = 0
         THEN [pc |-> "acquire", idx |-> i, value |-> v, tp |-> tp]
         ELSE run_loop_ignore_cancel(i + 1, IF have THEN v ELSE v - 1,
                                     [tp EXCEPT ![i] = "created"], FALSE, cancelled)

\* a loop that walks the requests from the last one to the first
RECURSIVE run_loop_reversed(_, _, _, _, _)
run_loop_reversed(i, v, tp, have, cancelled) ==
    IF i > NumRequests
    THEN [pc |-> "after_loop", idx |-> i, value |-> v, tp |-> tp]
    ELSE IF ~have /\ v = 0
         THEN [pc |-> "acquire", idx |-> i, value |-> v, tp |-> tp]
         ELSE LET v1 == IF have THEN v ELSE v - 1
              IN  IF cancelled
                  THEN [pc |-> "after_loop", idx |-> i, value |-> v1 + 1, tp |-> tp]
                  ELSE run_loop_reversed(i + 1, v1,
                                         [tp EXCEPT ![NumRequests + 1 - i] = "created"],
                                         FALSE, cancelled)

\* The for loop of run(), from request i up to its next suspension: acquire a
\* slot (without suspending while the semaphore is free), leave the loop when
\* cancelled, else create the task. `have`: the slot for request i was already
\* handed over to run() while it waited.
RECURSIVE run_loop(_, _, _, _, _)
run_loop(i, v, tp, have, cancelled) ==
    IF i > NumRequests
    THEN [pc |-> "after_loop", idx |-> i, value |-> v, tp |-> tp]
    ELSE IF ~have /\ v = 0
         THEN [pc |-> "acquire", idx |-> i, value |-> v, tp |-> tp]
         ELSE LET v1 == IF have THEN v ELSE v - 1
              IN  IF cancelled
                  THEN [pc |-> "after_loop", idx |-> i, value |-> v1 + 1, tp |-> tp]
                  ELSE run_loop(i + 1, v1, [tp EXCEPT ![i] = "created"], FALSE, cancelled)

\* run() returns: the finally block and the JobResult
run_returns ==
    /\ is_running' = FALSE
    /\ run_pc' = "idle"
    /\ run_wait' = {}
    /\ job_results' = Append(job_results,
                             JobResult(final_status(is_cancelled, metrics), "none", metrics))

\* run() goes on after its loop reached L: it waits in acquire, waits in
\* gather, or returns
run_continue(L) ==
    /\ task_pc' = L.tp
    /\ gen_left' = [r \in Requests |->
                      IF L.tp[r] = "created" /\ task_pc[r] # "created"
                      THEN GenLen ELSE gen_left[r]]
    /\ must_cancel' = [r \in Requests |->
                      IF L.tp[r] = "created" /\ task_pc[r] # "created"
                      THEN FALSE ELSE must_cancel[r]]
    /\ request_semaphore' = [value |-> L.value, granted |-> FALSE]
    /\ run_idx' = L.idx
    /\ IF L.pc = "acquire"
       THEN /\ run_pc' = "acquire"
            /\ run_wait' = {}
            /\ is_running' = TRUE
            /\ UNCHANGED job_results
       ELSE IF active_tasks(L.tp) # {}
            THEN /\ run_pc' = "gather"
                 /\ run_wait' = active_tasks(L.tp)
                 /\ is_running' = TRUE
                 /\ UNCHANGED job_results
            ELSE run_returns

\* await job.run(): raises RuntimeError while the Job is running, else sets
\* _is_running and runs the loop up to its first suspension
Job_run ==
    /\ IF is_running
       THEN /\ run_rejected' = run_rejected + 1
            /\ UNCHANGED <<is_running, is_cancelled, request_semaphore, run_pc, run_idx,
                           run_wait, task_pc, must_cancel, gen_left, job_results, run_calls>>
       ELSE /\ run_calls' = run_calls + 1
            /\ run_continue(run_loop(1, request_semaphore.value, task_pc, FALSE, is_cancelled))
            /\ UNCHANGED <<is_cancelled, run_rejected>>
    /\ UNCHANGED <<rp_status, rp_log, metrics, cancel_pc, cancel_wait, cancel_calls>>
    /\ UNCHANGED <<batcherVars, mgrVars, rqVars, jmVars, loopVars, pollVars, brVars>>

\* run() wakes up in self._request_semaphore.acquire() with a slot
run_acquired ==
    /\ run_pc = "acquire"
    /\ request_semaphore.granted
    /\ run_continue(run_loop(run_idx, request_semaphore.value, task_pc, TRUE, is_cancelled))
    /\ UNCHANGED <<is_cancelled, rp_status, rp_log, metrics, run_calls, run_rejected,
                   cancel_pc, cancel_wait, cancel_calls>>
    /\ UNCHANGED <<batcherVars, mgrVars, rqVars, jmVars, loopVars, pollVars, brVars>>

\* the gather of run() is over: every task it waited for is done
run_gathered ==
    /\ run_pc = "gather"
    /\ \A r \in run_wait : TaskDone(task_pc[r])
    /\ run_returns
    /\ UNCHANGED <<is_cancelled, request_semaphore, run_idx, task_pc, must_cancel, gen_left,
                   rp_status, rp_log, metrics, run_calls, run_rejected,
                   cancel_pc, cancel_wait, cancel_calls>>
    /\ UNCHANGED <<batcherVars, mgrVars, rqVars, jmVars, loopVars, pollVars, brVars>>

\* the for loop of run() when asyncio.create_task raises for request k
RECURSIVE run_loop_raising(_, _, _, _, _, _)
run_loop_raising(i, v, tp, have, cancelled, k) ==
    IF i > NumRequests
    THEN [pc |-> "after_loop", idx |-> i, value |-> v, tp |-> tp]
    ELSE IF ~have /\ v = 0
         THEN [pc |-> "acquire", idx |-> i, value |-> v, tp |-> tp]
         ELSE LET v1 == IF have THEN v ELSE v - 1
              IN  IF cancelled
                  THEN [pc |-> "after_loop", idx |-> i, value |-> v1 + 1, tp |-> tp]
                  ELSE IF i = k
                       THEN [pc |-> "raised", idx |-> i, value |-> v1, tp |-> tp]
                       ELSE run_loop_raising(i + 1, v1, [tp EXCEPT ![i] = "created"],
                                             FALSE, cancelled, k)

\* an error result that reports what the metrics say
run_error_result_by_metrics(m) == JobResult(final_status(FALSE, m), "none", m)

\* except Exception: JobResult(status=JobStatus.FAILED, ..., error=str(e))
run_error_result(m) == JobResult("failed", "error", m)

\* the except block has waited for cancel(): the JobResult, then finally
run_returns_failed ==
    /\ is_running' = FALSE
    /\ run_pc' = "idle"
    /\ run_wait' = {}
    /\ job_results' = Append(job_results, run_error_result(metrics))

\* except Exception: await self.cancel(), which sets _is_cancelled, cancels
\* every task that is not done and gathers them
run_fails(L) ==
    /\ L.pc = "raised"
    /\ task_pc' = L.tp
    /\ request_semaphore' = [value |-> L.value, granted |-> FALSE]
    /\ run_idx' = L.idx
    /\ is_cancelled' = TRUE
    /\ must_cancel' = [r \in Requests |-> TaskLive(L.tp[r])]
    /\ IF active_tasks(L.tp) # {}
       THEN /\ run_pc' = "except_cancel"
            /\ run_wait' = active_tasks(L.tp)
            /\ is_running' = TRUE
            /\ UNCHANGED job_results
       ELSE run_returns_failed

\* await job.run() whose loop raises before its first suspension
Job_run_raises ==
    /\ run_calls = 0
    /\ ~is_running
    /\ run_calls' = run_calls + 1
    /\ \E k \in Requests :
         run_fails(run_loop_raising(1, request_semaphore.value, task_pc, FALSE,
                                    is_cancelled, k))
    /\ UNCHANGED <<gen_left, rp_status, rp_log, metrics, run_rejected,
                   cancel_pc, cancel_wait, cancel_calls>>
    /\ UNCHANGED <<batcherVars, mgrVars, rqVars, jmVars, loopVars, pollVars, brVars>>

\* run() wakes up in acquire with a slot and its loop raises afterwards
run_acquired_raises ==
    /\ run_pc = "acquire"
    /\ request_semaphore.granted
    /\ \E k \in Requests :
         run_fails(run_loop_raising(run_idx, request_semaphore.value, task_pc, TRUE,
                                    is_cancelled, k))
    /\ UNCHANGED <<gen_left, rp_status, rp_log, metrics, run_calls, run_rejected,
                   cancel_pc, cancel_wait, cancel_calls>>
    /\ UNCHANGED <<batcherVars, mgrVars, rqVars, jmVars, loopVars, pollVars, brVars>>

\* the gather of the cancel() called by the except block is over
run_except_gathered ==
    /\ run_pc = "except_cancel"
    /\ \A r \in run_wait : TaskDone(task_pc[r])
    /\ run_returns_failed
    /\ UNCHANGED <<is_cancelled, request_semaphore, run_idx, task_pc, must_cancel, gen_left,
                   rp_status, rp_log, metrics, run_calls, run_rejected,
                   cancel_pc, cancel_wait, cancel_calls>>
    /\ UNCHANGED <<batcherVars, mgrVars, rqVars, jmVars, loopVars, pollVars, brVars>>

\* what a step of a process_request task leaves alone
task_frame ==
    /\ UNCHANGED <<is_running, is_cancelled, run_pc, run_idx, run_wait, must_cancel,
                   job_results, run_calls, run_rejected, cancel_pc, cancel_wait, cancel_calls>>
    /\ UNCHANGED <<batcherVars, mgrVars, rqVars, jmVars, loopVars, pollVars, brVars>>

\* except Exception as e: count the failure and call mark_error
request_fails(r) ==
    /\ metrics' = count_failure(metrics)
    /\ rp_log' = [rp_log EXCEPT ![r] = Append(@, "mark_error")]
    /\ task_pc' = [task_pc EXCEPT ![r] = "mark_error"]
    /\ UNCHANGED request_semaphore

\* the generator is exhausted (or the loop was left by break): count the
\* success and call finalize_result
request_succeeds(r) ==
    /\ metrics' = count_success(metrics)
    /\ rp_log' = [rp_log EXCEPT ![r] = Append(@, "finalize")]
    /\ task_pc' = [task_pc EXCEPT ![r] = "finalize"]
    /\ UNCHANGED request_semaphore

\* finally: self._request_semaphore.release(), and the task is done
task_ends(r, how) ==
    /\ task_pc' = [task_pc EXCEPT ![r] = how]
    /\ request_semaphore' = sem_release(request_semaphore, run_pc = "acquire")

\* the task starts: it calls initialize_result
task_start(r) ==
    /\ task_pc[r] = "created"
    /\ ~must_cancel[r]
    /\ task_pc' = [task_pc EXCEPT ![r] = "init"]
    /\ rp_log' = [rp_log EXCEPT ![r] = Append(@, "initialize")]
    /\ UNCHANGED <<gen_left, rp_status, metrics, request_semaphore>>
    /\ task_frame

\* initialize_result returns or raises
task_init(r) ==
    /\ task_pc[r] = "init"
    /\ ~must_cancel[r]
    /\ \E ok \in BOOLEAN :
         IF ok
         THEN /\ rp_status' = [rp_status EXCEPT ![r] = "in_progress"]
              /\ task_pc' = [task_pc EXCEPT ![r] = "gen"]
              /\ UNCHANGED <<rp_log, metrics, request_semaphore>>
         ELSE /\ request_fails(r)
              /\ UNCHANGED rp_status
    /\ UNCHANGED gen_left
    /\ task_frame

\* the generator yields a fragment or raises
task_gen(r) ==
    /\ task_pc[r] = "gen"
    /\ ~must_cancel[r]
    /\ \E ok \in BOOLEAN :
         IF ok
         THEN /\ gen_left' = [gen_left EXCEPT ![r] = @ - 1]
              /\ IF is_cancelled
                 THEN request_succeeds(r)
                 ELSE /\ rp_log' = [rp_log EXCEPT ![r] = Append(@, "append")]
                      /\ task_pc' = [task_pc EXCEPT ![r] = "append"]
                      /\ UNCHANGED <<metrics, request_semaphore>>
         ELSE /\ request_fails(r)
              /\ UNCHANGED gen_left
    /\ UNCHANGED rp_status
    /\ task_frame

\* append_result returns or raises; on return the generator is asked for the
\* next fragment, and ends without suspending when none is left
task_append(r) ==
    /\ task_pc[r] = "append"
    /\ ~must_cancel[r]
    /\ \E ok \in BOOLEAN :
         IF ok
         THEN IF gen_left[r] = 0
              THEN request_succeeds(r)
              ELSE /\ task_pc' = [task_pc EXCEPT ![r] = "gen"]
                   /\ UNCHANGED <<rp_log, metrics, request_semaphore>>
         ELSE request_fails(r)
    /\ UNCHANGED <<gen_left, rp_status>>
    /\ task_frame

\* finalize_result returns or raises
task_finalize(r) ==
    /\ task_pc[r] = "finalize"
    /\ ~must_cancel[r]
    /\ \E ok \in BOOLEAN :
         IF ok
         THEN /\ rp_status' = [rp_status EXCEPT ![r] = "completed"]
              /\ task_ends(r, "returned_ok")
              /\ UNCHANGED <<rp_log, metrics>>
         ELSE /\ request_fails(r)
              /\ UNCHANGED rp_status
    /\ UNCHANGED gen_left
    /\ task_frame

\* mark_error returns or raises
task_mark_error(r) ==
    /\ task_pc[r] = "mark_error"
    /\ ~must_cancel[r]
    /\ \E ok \in BOOLEAN :
         IF ok
         THEN /\ rp_status' = [rp_status EXCEPT ![r] = "failed"]
              /\ task_ends(r, "returned_err")
         ELSE /\ task_ends(r, "raised")
              /\ UNCHANGED rp_status
    /\ UNCHANGED <<gen_left, rp_log, metrics>>
    /\ task_frame

\* the state of request r in the result processor if the call the task is
\* suspended in takes effect
rp_after_pending(r) ==
    IF task_pc[r] = "init" THEN "in_progress"
    ELSE IF task_pc[r] = "finalize" THEN "completed"
    ELSE IF task_pc[r] = "mark_error" THEN "failed"
    ELSE rp_status[r]

\* CancelledError is thrown into the task at the await it is suspended in. It
\* is a BaseException: `except Exception` does not catch it, the finally block
\* releases the slot. A task that never started runs no code at all. The call
\* the task was suspended in may or may not have taken effect.
task_cancelled(r) ==
    /\ TaskLive(task_pc[r])
    /\ must_cancel[r]
    /\ IF task_pc[r] = "created"
       THEN /\ task_pc' = [task_pc EXCEPT ![r] = "cancelled"]
            /\ UNCHANGED <<request_semaphore, rp_status>>
       ELSE /\ task_ends(r, "cancelled")
            /\ \E landed \in BOOLEAN :
                 rp_status' = [rp_status EXCEPT ![r] =
                                  IF landed THEN rp_after_pending(r) ELSE @]
    /\ UNCHANGED <<gen_left, rp_log, metrics>>
    /\ task_frame

\* await job.cancel(): called once per Job, by shutdown() of the worker
\* JobManager (manager.py:194)
Job_cancel ==
    /\ cancel_calls = 0
    /\ cancel_pc = "idle"
    /\ cancel_calls' = cancel_calls + 1
    /\ IF ~is_running
       THEN UNCHANGED <<is_cancelled, must_cancel, cancel_pc, cancel_wait>>
       ELSE /\ is_cancelled' = TRUE
            /\ must_cancel' = [r \in Requests |-> must_cancel[r] \/ TaskLive(task_pc[r])]
            /\ cancel_wait' = active_tasks(task_pc)
            /\ cancel_pc' = IF active_tasks(task_pc) # {} THEN "waiting" ELSE "idle"
    /\ UNCHANGED <<is_running, request_semaphore, run_pc, run_idx, run_wait, task_pc,
                   gen_left, rp_status, rp_log, metrics, job_results, run_calls, run_rejected>>
    /\ UNCHANGED <<batcherVars, mgrVars, rqVars, jmVars, loopVars, pollVars, brVars>>

\* the gather of cancel() is over
cancel_gathered ==
    /\ cancel_pc = "waiting"
    /\ \A r \in cancel_wait : TaskDone(task_pc[r])
    /\ cancel_pc' = "idle"
    /\ UNCHANGED <<is_running, is_cancelled, request_semaphore, run_pc, run_idx, run_wait,
                   task_pc, must_cancel, gen_left, rp_status, rp_log, metrics, job_results,
                   run_calls, run_rejected, cancel_wait, cancel_calls>>
    /\ UNCHANGED <<batcherVars, mgrVars, rqVars, jmVars, loopVars, pollVars, brVars>>

\* Job.__init__
InitJob ==
    /\ is_running = FALSE
    /\ is_cancelled = FALSE
    /\ request_semaphore = [value |-> max_concurrent_requests, granted |-> FALSE]
    /\ run_pc = "idle"
    /\ run_idx = 1
    /\ run_wait = {}
    /\ task_pc = [r \in Requests |-> "none"]
    /\ must_cancel = [r \in Requests |-> FALSE]
    /\ gen_left = [r \in Requests |-> GenLen]
    /\ rp_status = [r \in Requests |-> "absent"]
    /\ rp_log = [r \in Requests |-> <<>>]
    /\ metrics = [total_requests |-> NumRequests, successful_requests |-> 0,
                  failed_requests |-> 0]
    /\ job_results = <<>>
    /\ run_calls = 0
    /\ run_rejected = 0
    /\ cancel_pc = "idle"
    /\ cancel_wait = {}
    /\ cancel_calls = 0

\* the worker JobManager runs each Job once (manager.py:73)
run_once == run_calls = 0 /\ Job_run

\* any caller of the Job's public run()
run_again == run_calls + run_rejected < MaxRunCalls /\ Job_run

\* the next step of the process_request task of request r
task_next(r) ==
    \/ task_start(r)
    \/ task_init(r)
    \/ task_gen(r)
    \/ task_append(r)
    \/ task_finalize(r)
    \/ task_mark_error(r)
    \/ task_cancelled(r)

task_step == \E r \in Requests : task_next(r)

NextJobCommon ==
    \/ run_acquired
    \/ run_gathered
    \/ task_step
    \/ Job_cancel
    \/ cancel_gathered

NextJob == run_once \/ NextJobCommon

NextJobReentry == run_again \/ NextJobCommon

\* a Job whose orchestration loop may raise, and that nobody else cancels
NextJobRaising ==
    \/ run_once
    \/ Job_run_raises
    \/ run_acquired
    \/ run_acquired_raises
    \/ run_gathered
    \/ run_except_gathered
    \/ task_step


(***************************************************************************)
(* Worker JobManager: src/services/worker/core/manager.py, with the        *)
(* request source of core/implementations/request_source.py.               *)
(*                                                                         *)
(* A Job is seen from outside here: "scheduled" (the _process_job task is  *)
(* created, job.run() not yet called), "running" (inside job.run()),       *)
(* "marking" (run() returned, inside request_source.mark_processed),       *)
(* "done" (the finally block of _process_job has run).                     *)
(***************************************************************************)

\* time between the creation of two requests pushed one after the other
ArrivalGaps == {0, 300}

\* the element of the Redis list for request id: the text of a dict
serialized(id, created_at) == <<"dict", id, created_at>>

\* get_requests: redis.lrange(queue_key, 0, batch_size - 1), each element parsed
get_requests(q) == [i \in 1..Len(q) |-> [id |-> q[i][2], created_at |-> q[i][3]]]

\* redis.lrem(queue_key, 0, str(request_id)): removes the elements equal to the
\* text of the id
lrem(q, id) == SelectSeq(q, LAMBDA e : e # uuid_str(id))

RECURSIVE lrem_all(_, _)
lrem_all(q, ids) ==
    IF ids = <<>> THEN q ELSE lrem_all(lrem(q, Head(ids)), Tail(ids))

\* the requests taken in the order given
sorted_as_given(reqs) == reqs

\* sorted(requests, key=lambda r: r.created_at): a stable sort
RECURSIVE insert_sorted(_, _)
insert_sorted(sorted, req) ==
    IF sorted = <<>> THEN <<req>>
    ELSE IF sorted[Len(sorted)].created_at <= req.created_at
         THEN Append(sorted, req)
         ELSE Append(insert_sorted(SubSeq(sorted, 1, Len(sorted) - 1), req),
                     sorted[Len(sorted)])

RECURSIVE sorted_by_created_at(_)
sorted_by_created_at(reqs) ==
    IF reqs = <<>> THEN <<>>
    ELSE insert_sorted(sorted_by_created_at(SubSeq(reqs, 1, Len(reqs) - 1)), reqs[Len(reqs)])

\* a loop whose window slides: it restarts at every request taken
RECURSIVE batch_loop_sliding(_, _, _, _, _)
batch_loop_sliding(sorted, i, batches, current_batch, current_window_start) ==
    IF i > Len(sorted)
    THEN IF current_batch # <<>> THEN Append(batches, current_batch) ELSE batches
    ELSE LET request == sorted[i]
         IN  IF request.created_at - current_window_start <= worker_batch_window_ms
             THEN LET grown == Append(current_batch, request)
                  IN  IF Len(grown) >= worker_max_requests_per_job
                      THEN batch_loop_sliding(sorted, i + 1, Append(batches, grown), <<>>,
                                              request.created_at)
                      ELSE batch_loop_sliding(sorted, i + 1, batches, grown,
                                              request.created_at)
             ELSE batch_loop_sliding(sorted, i + 1,
                                     IF current_batch # <<>>
                                     THEN Append(batches, current_batch) ELSE batches,
                                     <<request>>, request.created_at)

\* the for loop of _batch_requests, from request i on
RECURSIVE batch_loop(_, _, _, _, _)
batch_loop(sorted, i, batches, current_batch, current_window_start) ==
    IF i > Len(sorted)
    THEN IF current_batch # <<>> THEN Append(batches, current_batch) ELSE batches
    ELSE LET request == sorted[i]
         IN  IF request.created_at - current_window_start <= worker_batch_window_ms
             THEN LET grown == Append(current_batch, request)
                  IN  IF Len(grown) >= worker_max_requests_per_job
                      THEN batch_loop(sorted, i + 1, Append(batches, grown), <<>>,
                                      request.created_at)
                      ELSE batch_loop(sorted, i + 1, batches, grown, current_window_start)
             ELSE batch_loop(sorted, i + 1,
                             IF current_batch # <<>> THEN Append(batches, current_batch)
                                                     ELSE batches,
                             <<request>>, request.created_at)

\* JobManager._batch_requests
worker_batch_requests(requests) ==
    IF requests = <<>> THEN <<>>
    ELSE LET sorted == sorted_by_created_at(requests)
         IN  batch_loop(sorted, 1, <<>>, <<>>, sorted[1].created_at)

JobIds == 1..MaxJobs

NoJob == [state |-> "none", requests |-> <<>>, cancelled |-> FALSE, outcome |-> "none"]

\* the number of Jobs created so far
n_jobs(js) == Cardinality({j \in JobIds : js[j].state # "none"})

\* _process_batch once it holds a slot: _create_job, _active_jobs.add,
\* asyncio.create_task(self._process_job(job))
launch_job(d, requests) ==
    LET j == n_jobs(d.jobs) + 1
    IN  [d EXCEPT !.jobs[j] = [state |-> "scheduled", requests |-> requests,
                               cancelled |-> FALSE, outcome |-> "none"],
                  !.active = @ \cup {j}]

\* a dispatch loop that starts a Job for every batch without waiting for a slot
RECURSIVE dispatch_no_acquire(_, _)
dispatch_no_acquire(d, have) ==
    IF d.batches = <<>> THEN [d EXCEPT !.pc = "sleep"]
    ELSE IF ~have /\ mgr_is_shutting_down THEN [d EXCEPT !.pc = "sleep", !.batches = <<>>]
    ELSE dispatch_no_acquire(
             [launch_job(d, Head(d.batches)) EXCEPT !.batches = Tail(d.batches)], FALSE)

\* `for batch in batches` of run(), up to its next suspension:
\* d = [batches, value, active, jobs, pc, fails]. The loop is left when shutting
\* down; _process_batch waits in acquire when no slot is free. `have`: run()
\* waited in acquire for the first batch and was handed the slot. `d.fails`:
\* _create_job or asyncio.create_task raises in the first _process_batch that
\* gets a slot; the exception leaves _process_batch and the loop.
RECURSIVE dispatch(_, _)
dispatch(d, have) ==
    IF d.batches = <<>> THEN [d EXCEPT !.pc = "sleep"]
    ELSE IF ~have /\ mgr_is_shutting_down THEN [d EXCEPT !.pc = "sleep", !.batches = <<>>]
    ELSE IF ~have /\ d.value = 0 THEN [d EXCEPT !.pc = "acquire"]
    ELSE IF d.fails
         THEN [d EXCEPT !.pc = "raised", !.batches = <<>>,
                        !.value = IF have THEN @ ELSE @ - 1]
    ELSE dispatch(
             [launch_job(d, Head(d.batches)) EXCEPT
                  !.batches = Tail(d.batches),
                  !.value = IF have THEN @ ELSE @ - 1], FALSE)

\* run() leaves its loop: finally: self._is_running = False
mgr_stops ==
    /\ mgr_is_running' = FALSE
    /\ mgr_pc' = "stopped"

Dispatching(batches, fails) ==
    [batches |-> batches, value |-> job_semaphore.value, active |-> active_jobs,
     jobs |-> jobs, pc |-> "dispatch", fails |-> fails]

\* the state run() leaves behind when its dispatch loop reached d; an
\* exception that left the loop is logged and run() ends
mgr_continue(d) ==
    /\ pending_batches' = d.batches
    /\ job_semaphore' = [value |-> d.value, granted |-> FALSE]
    /\ active_jobs' = d.active
    /\ jobs' = d.jobs
    /\ IF d.pc = "raised"
       THEN mgr_stops
       ELSE mgr_pc' = d.pc /\ UNCHANGED mgr_is_running

\* await manager.run(), called once by main()
mgr_run ==
    /\ mgr_pc = "idle"
    /\ ~mgr_is_running
    /\ IF mgr_is_shutting_down
       THEN mgr_stops
       ELSE mgr_is_running' = TRUE /\ mgr_pc' = "get_requests"
    /\ UNCHANGED <<mgr_is_shutting_down, job_semaphore, active_jobs, pending_batches, jobs,
                   src_queue, src_processed, shutdown_pc, shutdown_cancels,
                   shutdown_wait, shutdown_jobs, shutdown_unstarted>>
    /\ UNCHANGED <<batcherVars, jobVars, rqVars, jmVars, loopVars, pollVars, brVars>>

\* request_source.get_requests() returns, or raises (the exception ends run())
mgr_got_requests ==
    /\ mgr_pc = "get_requests"
    /\ \/ mgr_is_shutting_down
       \/ n_jobs(jobs) + Len(worker_batch_requests(get_requests(src_queue))) <= MaxJobs
    /\ \E ok \in BOOLEAN :
         IF ~ok
         THEN mgr_stops /\ UNCHANGED <<job_semaphore, active_jobs, pending_batches, jobs>>
         ELSE LET requests == get_requests(src_queue)
              IN  IF requests = <<>>
                  THEN /\ mgr_pc' = "sleep"
                       /\ UNCHANGED <<mgr_is_running, job_semaphore, active_jobs,
                                      pending_batches, jobs>>
                  ELSE \E fails \in BOOLEAN :
                         mgr_continue(dispatch(
                             Dispatching(worker_batch_requests(requests), fails), FALSE))
    /\ UNCHANGED <<mgr_is_shutting_down, src_queue, src_processed, shutdown_pc, shutdown_cancels,
                   shutdown_wait, shutdown_jobs, shutdown_unstarted>>
    /\ UNCHANGED <<batcherVars, jobVars, rqVars, jmVars, loopVars, pollVars, brVars>>

\* _process_batch wakes up in self._job_semaphore.acquire() with a slot
mgr_acquired ==
    /\ mgr_pc = "acquire"
    /\ job_semaphore.granted
    /\ \E fails \in BOOLEAN :
         mgr_continue(dispatch(Dispatching(pending_batches, fails), TRUE))
    /\ UNCHANGED <<mgr_is_shutting_down, src_queue, src_processed,
                   shutdown_pc, shutdown_cancels,
                   shutdown_wait, shutdown_jobs, shutdown_unstarted>>
    /\ UNCHANGED <<batcherVars, jobVars, rqVars, jmVars, loopVars, pollVars, brVars>>

\* asyncio.sleep of run() is over: the while condition is evaluated
mgr_wakes ==
    /\ mgr_pc = "sleep"
    /\ IF mgr_is_shutting_down
       THEN mgr_stops
       ELSE mgr_pc' = "get_requests" /\ UNCHANGED mgr_is_running
    /\ UNCHANGED <<mgr_is_shutting_down, job_semaphore, active_jobs, pending_batches, jobs,
                   src_queue, src_processed, shutdown_pc, shutdown_cancels,
                   shutdown_wait, shutdown_jobs, shutdown_unstarted>>
    /\ UNCHANGED <<batcherVars, jobVars, rqVars, jmVars, loopVars, pollVars, brVars>>

\* what a step of a _process_job task leaves alone
pj_frame ==
    /\ UNCHANGED <<mgr_is_running, mgr_is_shutting_down, mgr_pc, pending_batches,
                   shutdown_pc, shutdown_cancels,
                   shutdown_wait, shutdown_jobs, shutdown_unstarted>>
    /\ UNCHANGED <<batcherVars, jobVars, rqVars, jmVars, loopVars, pollVars, brVars>>

\* the Job's own budget: _create_job passes no max_concurrent_requests
budget_exceeded(j) == Len(jobs[j].requests) > max_concurrent_requests

\* the _process_job task starts: result = await job.run(). run() sets
\* _is_running and creates the first process_request tasks, which have not
\* started when run() suspends.
pj_start(j) ==
    /\ jobs[j].state = "scheduled"
    /\ jobs' = [jobs EXCEPT ![j].state = "started"]
    /\ UNCHANGED <<job_semaphore, active_jobs, src_queue, src_processed>>
    /\ pj_frame

\* the process_request tasks of the Job start. A cancel() task that
\* shutdown() created before the _process_job task started runs before them.
pj_tasks_start(j) ==
    /\ jobs[j].state = "started"
    /\ ~(j \in shutdown_cancels /\ j \in shutdown_unstarted)
    /\ jobs' = [jobs EXCEPT ![j].state = "running"]
    /\ UNCHANGED <<job_semaphore, active_jobs, src_queue, src_processed>>
    /\ pj_frame

\* job.run() returns: await self.request_source.mark_processed(...)
pj_run_returns(j) ==
    /\ jobs[j].state = "running"
    /\ jobs' = [jobs EXCEPT ![j].state = "marking",
                            ![j].outcome = IF jobs[j].cancelled THEN "cancelled"
                                                                ELSE "finished"]
    /\ UNCHANGED <<job_semaphore, active_jobs, src_queue, src_processed>>
    /\ pj_frame

\* job.run() raises: mark_processed is skipped, `except Exception` builds a
\* FAILED JobResult; finally: _active_jobs.discard(job), _job_semaphore.release()
pj_run_raises(j) ==
    /\ jobs[j].state = "running"
    /\ jobs' = [jobs EXCEPT ![j] = [state |-> "done", requests |-> <<>>, cancelled |-> FALSE,
                                    outcome |-> "raised"]]
    /\ UNCHANGED <<src_queue, src_processed>>
    /\ active_jobs' = active_jobs \ {j}
    /\ job_semaphore' = sem_release(job_semaphore, mgr_pc = "acquire")
    /\ pj_frame

\* mark_processed returns or raises; finally: _active_jobs.discard(job),
\* _job_semaphore.release()
pj_finishes(j) ==
    /\ jobs[j].state = "marking"
    /\ jobs' = [jobs EXCEPT ![j] = [state |-> "done", requests |-> <<>>, cancelled |-> FALSE,
                                    outcome |-> jobs[j].outcome]]
    /\ \E ok \in BOOLEAN :
         IF ok
         THEN /\ src_queue' = lrem_all(src_queue, [i \in 1..Len(jobs[j].requests) |->
                                                      jobs[j].requests[i].id])
              /\ src_processed' = src_processed \cup
                     {uuid_str(jobs[j].requests[i].id) : i \in 1..Len(jobs[j].requests)}
         ELSE UNCHANGED <<src_queue, src_processed>>
    /\ active_jobs' = active_jobs \ {j}
    /\ job_semaphore' = sem_release(job_semaphore, mgr_pc = "acquire")
    /\ pj_frame

\* a producer pushes a request to the Redis list
src_push ==
    /\ Len(src_queue) < NumSourceRequests
    /\ \E gap \in ArrivalGaps :
         LET last == IF src_queue = <<>> THEN 0 ELSE src_queue[Len(src_queue)][3] + gap
         IN  src_queue' = Append(src_queue, serialized(Len(src_queue) + 1, last))
    /\ UNCHANGED <<mgr_is_running, mgr_is_shutting_down, job_semaphore, active_jobs, mgr_pc,
                   pending_batches, jobs, src_processed, shutdown_pc, shutdown_cancels,
                   shutdown_wait, shutdown_jobs, shutdown_unstarted>>
    /\ UNCHANGED <<batcherVars, jobVars, rqVars, jmVars, loopVars, pollVars, brVars>>

\* await manager.shutdown(): the flag is set and the cancel() of every active
\* Job is handed to asyncio.gather, which runs each as a task of its own
mgr_shutdown ==
    /\ shutdown_pc = "idle"
    /\ mgr_is_shutting_down' = TRUE
    /\ shutdown_cancels' = active_jobs
    /\ shutdown_jobs' = active_jobs
    /\ shutdown_unstarted' = {j \in active_jobs : jobs[j].state = "scheduled"}
    /\ shutdown_pc' = IF active_jobs # {} THEN "waiting" ELSE "closing"
    /\ UNCHANGED <<mgr_is_running, job_semaphore, active_jobs, mgr_pc, pending_batches, jobs,
                   src_queue, src_processed, shutdown_wait>>
    /\ UNCHANGED <<batcherVars, jobVars, rqVars, jmVars, loopVars, pollVars, brVars>>

\* the task of job.cancel() starts. The event loop runs tasks in the order
\* they were created: the _process_job task of the Job has started, and the
\* process_request tasks have too unless they were created after this task.
\* cancel() returns at once unless the Job is running; otherwise it sets
\* _is_cancelled, cancels the tasks of the Job and waits for them. Tasks
\* cancelled before they start release no slot of the Job's budget: if run()
\* waits in acquire (more requests than the budget) and no started task is
\* left, run() waits forever.
job_cancel(j) ==
    /\ j \in shutdown_cancels
    /\ jobs[j].state # "scheduled"
    /\ jobs[j].state = "started" => j \in shutdown_unstarted
    /\ shutdown_cancels' = shutdown_cancels \ {j}
    /\ IF jobs[j].state = "started"
       THEN /\ jobs' = [jobs EXCEPT ![j].cancelled = TRUE,
                                    ![j].state = IF budget_exceeded(j) THEN "stuck"
                                                                       ELSE "running"]
            /\ shutdown_wait' = shutdown_wait \cup {j}
       ELSE IF jobs[j].state = "running"
       THEN /\ \E all_unstarted \in BOOLEAN :
                 jobs' = [jobs EXCEPT ![j].cancelled = TRUE,
                                      ![j].state = IF budget_exceeded(j) /\ all_unstarted
                                                   THEN "stuck" ELSE "running"]
            /\ shutdown_wait' = shutdown_wait \cup {j}
       ELSE UNCHANGED <<jobs, shutdown_wait>>
    /\ UNCHANGED <<mgr_is_running, mgr_is_shutting_down, job_semaphore, active_jobs, mgr_pc,
                   pending_batches, src_queue, src_processed, shutdown_pc, shutdown_jobs,
                   shutdown_unstarted>>
    /\ UNCHANGED <<batcherVars, jobVars, rqVars, jmVars, loopVars, pollVars, brVars>>

\* every cancel() has returned: await self.request_source.close()
mgr_shutdown_gathered ==
    /\ shutdown_pc = "waiting"
    /\ shutdown_cancels = {}
    /\ \A j \in shutdown_wait : jobs[j].state # "running"
    /\ shutdown_pc' = "closing"
    /\ UNCHANGED <<mgr_is_running, mgr_is_shutting_down, job_semaphore, active_jobs, mgr_pc,
                   pending_batches, jobs, src_queue, src_processed, shutdown_cancels,
                   shutdown_wait, shutdown_jobs, shutdown_unstarted>>
    /\ UNCHANGED <<batcherVars, jobVars, rqVars, jmVars, loopVars, pollVars, brVars>>

\* request_source.close() returns: shutdown() returns
mgr_shutdown_closed ==
    /\ shutdown_pc = "closing"
    /\ shutdown_pc' = "done"
    /\ UNCHANGED <<mgr_is_running, mgr_is_shutting_down, job_semaphore, active_jobs, mgr_pc,
                   pending_batches, jobs, src_queue, src_processed, shutdown_cancels,
                   shutdown_wait, shutdown_jobs, shutdown_unstarted>>
    /\ UNCHANGED <<batcherVars, jobVars, rqVars, jmVars, loopVars, pollVars, brVars>>

\* JobManager.__init__
InitManager ==
    /\ mgr_is_running = FALSE
    /\ mgr_is_shutting_down = FALSE
    /\ job_semaphore = [value |-> max_concurrent_jobs, granted |-> FALSE]
    /\ active_jobs = {}
    /\ mgr_pc = "idle"
    /\ pending_batches = <<>>
    /\ jobs = [j \in JobIds |-> NoJob]
    /\ src_queue = <<>>
    /\ src_processed = {}
    /\ shutdown_pc = "idle"
    /\ shutdown_cancels = {}
    /\ shutdown_wait = {}
    /\ shutdown_jobs = {}
    /\ shutdown_unstarted = {}

\* the next step of the tasks around Job j
pj_next(j) ==
    \/ pj_start(j)
    \/ pj_tasks_start(j)
    \/ pj_run_returns(j)
    \/ pj_finishes(j)
    \/ job_cancel(j)

pj_step == \E j \in JobIds : pj_next(j)

NextManager ==
    \/ src_push
    \/ mgr_run
    \/ mgr_got_requests
    \/ mgr_acquired
    \/ mgr_wakes
    \/ pj_step
    \/ mgr_shutdown
    \/ mgr_shutdown_gathered
    \/ mgr_shutdown_closed


(***************************************************************************)
(* RQ worker: process_batch of src/src/job/processor.py, PromptProcessor   *)
(* of src/src/processor/prompt_processor.py and RedisInteractor of         *)
(* src/src/data/redis.py. One RQ worker takes the enqueued jobs in order.  *)
(*                                                                         *)
(* process_prompt of a request is suspended in: "append" (in               *)
(* append_response for the next character), "complete" (in                 *)
(* set_status(COMPLETED)), "error" (in write_error), or is over:           *)
(* "returned", "raised".                                                   *)
(***************************************************************************)

RequestIds == 1..MaxRequests

\* UUID(req["id"]) of process_batch: the text of _create_job parsed back
uuid_parse(text) == text[2]

\* the ids of the requests of the job process_batch is running
rq_job_ids == {uuid_parse(enqueued[rq_done][i].id) : i \in 1..Len(enqueued[rq_done])}

\* RedisInteractor.append_response after redis.append: set_status(IN_PROGRESS)
append_response_status(st, rid) == [st EXCEPT ![rid] = "in_progress"]

\* the longest text generate_text_fn yields
MaxChars == 2

\* numbers of characters generate_text_fn may yield for a prompt
GenLens == 0..MaxChars

\* the RQ worker takes the next job: process_batch builds the JobRequests and
\* gathers one process_prompt per request; a generator that yields nothing
\* leads process_prompt straight to set_status(COMPLETED)
rq_start ==
    /\ rq_pc = "idle"
    /\ rq_done < Len(enqueued)
    /\ rq_pc' = "running"
    /\ rq_done' = rq_done + 1
    /\ LET ids == {uuid_parse(enqueued[rq_done + 1][i].id) :
                      i \in 1..Len(enqueued[rq_done + 1])}
       IN  \E len \in [ids -> GenLens] :
             /\ pp_pc' = [r \in RequestIds |->
                             IF r \notin ids THEN "none"
                             ELSE IF len[r] = 0 THEN "complete" ELSE "append"]
             /\ pp_left' = [r \in RequestIds |-> IF r \in ids THEN len[r] ELSE 0]
    /\ UNCHANGED <<redis_status, redis_response>>
    /\ UNCHANGED <<batcherVars, jobVars, mgrVars, jmVars, loopVars, pollVars, brVars>>

\* append_response for the next character: redis.append, then
\* set_status(IN_PROGRESS); either Redis call may raise
pp_append(r) ==
    /\ rq_pc = "running"
    /\ pp_pc[r] = "append"
    /\ \E outcome \in {"ok", "append_raises", "set_status_raises"} :
         /\ redis_response' =
              IF outcome = "append_raises" THEN redis_response
              ELSE [redis_response EXCEPT ![r] =
                        IF @[1] = "text" THEN <<"text", @[2] + 1>> ELSE @]
         /\ redis_status' =
              IF outcome = "ok" THEN append_response_status(redis_status, r)
              ELSE redis_status
         /\ pp_left' = IF outcome = "ok" THEN [pp_left EXCEPT ![r] = @ - 1] ELSE pp_left
         /\ pp_pc' = [pp_pc EXCEPT ![r] =
                         IF outcome # "ok" THEN "error"
                         ELSE IF pp_left[r] = 1 THEN "complete" ELSE "append"]
    /\ UNCHANGED <<rq_pc, rq_done>>
    /\ UNCHANGED <<batcherVars, jobVars, mgrVars, jmVars, loopVars, pollVars, brVars>>

\* set_status(request_id, JobStatus.COMPLETED) returns or raises
pp_complete(r) ==
    /\ rq_pc = "running"
    /\ pp_pc[r] = "complete"
    /\ \E ok \in BOOLEAN :
         IF ok
         THEN /\ redis_status' = [redis_status EXCEPT ![r] = "completed"]
              /\ pp_pc' = [pp_pc EXCEPT ![r] = "returned"]
         ELSE /\ pp_pc' = [pp_pc EXCEPT ![r] = "error"]
              /\ UNCHANGED redis_status
    /\ UNCHANGED <<rq_pc, rq_done, pp_left, redis_response>>
    /\ UNCHANGED <<batcherVars, jobVars, mgrVars, jmVars, loopVars, pollVars, brVars>>

\* except Exception: write_error (redis.set of the error text, then
\* set_status(FAILED)), and the exception is raised again
pp_write_error(r) ==
    /\ rq_pc = "running"
    /\ pp_pc[r] = "error"
    /\ \E outcome \in {"ok", "set_raises", "set_status_raises"} :
         /\ redis_response' =
              IF outcome = "set_raises" THEN redis_response
              ELSE [redis_response EXCEPT ![r] = <<"error">>]
         /\ redis_status' =
              IF outcome = "ok" THEN [redis_status EXCEPT ![r] = "failed"]
              ELSE redis_status
    /\ pp_pc' = [pp_pc EXCEPT ![r] = "raised"]
    /\ UNCHANGED <<rq_pc, rq_done, pp_left>>
    /\ UNCHANGED <<batcherVars, jobVars, mgrVars, jmVars, loopVars, pollVars, brVars>>

\* process_batch ends: the gather returned (every process_prompt returned),
\* or it raised the first exception and asyncio.run cancelled the
\* process_prompt tasks still running
rq_finish ==
    /\ rq_pc = "running"
    /\ \/ \A r \in rq_job_ids : pp_pc[r] = "returned"
       \/ \E r \in rq_job_ids : pp_pc[r] = "raised"
    /\ rq_pc' = "idle"
    /\ pp_pc' = [r \in RequestIds |-> "none"]
    /\ pp_left' = [r \in RequestIds |-> 0]
    /\ UNCHANGED <<rq_done, redis_status, redis_response>>
    /\ UNCHANGED <<batcherVars, jobVars, mgrVars, jmVars, loopVars, pollVars, brVars>>

InitRq ==
    /\ rq_pc = "idle"
    /\ rq_done = 0
    /\ pp_pc = [r \in RequestIds |-> "none"]
    /\ pp_left = [r \in RequestIds |-> 0]
    /\ redis_status = [r \in RequestIds |-> "absent"]
    /\ redis_response = [r \in RequestIds |-> <<"text", 0>>]

\* a request submitted while the RQ worker is followed
process_request_few ==
    /\ next_rid <= MaxDispatchRequests
    /\ process_request

pp_step ==
    \E r \in RequestIds :
        \/ pp_append(r)
        \/ pp_complete(r)
        \/ pp_write_error(r)

\* the API process hands batches to the queue, the RQ worker runs them
NextDispatch ==
    \/ process_request_few
    \/ close
    \/ rq_start
    \/ pp_step
    \/ rq_finish


(***************************************************************************)
(* The streaming loop of the handler: src/src/api/handlers.py:30-60.       *)
(* It reads the keys the RQ worker writes.                                 *)
(***************************************************************************)

\* RedisInteractor.get_response: the text, or None when the key is absent or empty
get_response(resp) == IF resp = <<"text", 0>> THEN <<>> ELSE <<resp>>

\* RedisInteractor.get_status: IN_PROGRESS when the key is absent
get_status(st) == IF st = "absent" THEN "in_progress" ELSE st

Terminal(st) == st \in {"completed", "failed"}

\* job_manager.process_request returned: the handler enters its while loop
poll_start(r) ==
    /\ poll_pc[r] = "none"
    /\ \E i \in 1..Len(accepted) : accepted[i] = r
    /\ poll_pc' = [poll_pc EXCEPT ![r] = "get_response"]
    /\ UNCHANGED <<poll_last, poll_text>>
    /\ UNCHANGED <<batcherVars, jobVars, mgrVars, rqVars, jmVars, loopVars, brVars>>

\* one round up to get_response: without a text the loop sleeps and starts over
poll_get_response(r) ==
    /\ poll_pc[r] = "get_response"
    /\ poll_pc' = [poll_pc EXCEPT ![r] =
                      IF get_response(redis_response[r]) = <<>>
                      THEN "get_response" ELSE "get_status"]
    /\ poll_text' = [poll_text EXCEPT ![r] = get_response(redis_response[r])]
    /\ UNCHANGED poll_last
    /\ UNCHANGED <<batcherVars, jobVars, mgrVars, rqVars, jmVars, loopVars, brVars>>

\* get_status, the event with the text read before and that status, and the
\* break on a terminal status
poll_get_status(r) ==
    /\ poll_pc[r] = "get_status"
    /\ UNCHANGED poll_text
    /\ poll_last' = [poll_last EXCEPT ![r] = get_status(redis_status[r])]
    /\ poll_pc' = [poll_pc EXCEPT ![r] =
                      IF Terminal(get_status(redis_status[r]))
                      THEN "stopped" ELSE "get_response"]
    /\ UNCHANGED <<batcherVars, jobVars, mgrVars, rqVars, jmVars, loopVars, brVars>>

\* the client goes away: request.transport.is_closing() ends the loop
poll_disconnect(r) ==
    /\ poll_pc[r] = "get_response"
    /\ poll_pc' = [poll_pc EXCEPT ![r] = "closed"]
    /\ UNCHANGED <<poll_last, poll_text>>
    /\ UNCHANGED <<batcherVars, jobVars, mgrVars, rqVars, jmVars, loopVars, brVars>>

InitPoll ==
    /\ poll_pc = [r \in RequestIds |-> "none"]
    /\ poll_last = [r \in RequestIds |-> "none"]
    /\ poll_text = [r \in RequestIds |-> <<>>]

poll_step(r) == poll_start(r) \/ poll_get_response(r) \/ poll_get_status(r)

poll_any == \E r \in RequestIds : poll_step(r) \/ poll_disconnect(r)

\* the API process and the RQ worker before shutdown
NextStream ==
    \/ process_request_few
    \/ purge
    \/ Tick
    \/ rq_start
    \/ pp_step
    \/ rq_finish
    \/ poll_any


(***************************************************************************)
(* JobMetrics: src/src/job/models.py:34-55 and                             *)
(* src/services/worker/job/models.py:37-59 (the same two properties).      *)
(* A float is kept as the exact fraction <<numerator, denominator>> in     *)
(* lowest terms; 0.0 is <<0, 1>>.                                          *)
(***************************************************************************)

RECURSIVE gcd(_, _)
gcd(a, b) == IF b = 0 THEN a ELSE gcd(b, a % b)

\* a / b of Python for b > 0
true_div(a, b) == <<a \div gcd(a, b), b \div gcd(a, b)>>

Zero == <<0, 1>>

\* a success rate computed from the failed requests
success_rate_of_failed(m) ==
    IF m.total_requests = 0 THEN Zero
    ELSE true_div(m.failed_requests, m.total_requests)

\* JobMetrics.success_rate
success_rate(m) ==
    IF m.total_requests = 0 THEN Zero
    ELSE true_div(m.successful_requests, m.total_requests)

\* JobMetrics.avg_processing_time
avg_processing_time(m) ==
    IF m.total_requests = 0 THEN Zero
    ELSE true_div(m.total_processing_time, m.total_requests)

\* the JobMetrics instances looked at
JobMetricsValues ==
    [total_requests : 0..MaxMetric, successful_requests : 0..MaxMetric,
     failed_requests : 0..1, total_processing_time : 0..MaxMetric]

read_success_rate ==
    /\ jm_read' = [property |-> "success_rate", value |-> success_rate(jm)]
    /\ UNCHANGED jm
    /\ UNCHANGED <<batcherVars, jobVars, mgrVars, rqVars, loopVars, pollVars, brVars>>

read_avg_processing_time ==
    /\ jm_read' = [property |-> "avg_processing_time", value |-> avg_processing_time(jm)]
    /\ UNCHANGED jm
    /\ UNCHANGED <<batcherVars, jobVars, mgrVars, rqVars, loopVars, pollVars, brVars>>

\* JobMetrics(): every field defaults to 0
InitJobMetrics ==
    /\ jm = [total_requests |-> 0, successful_requests |-> 0, failed_requests |-> 0,
             total_processing_time |-> 0]
    /\ jm_read = [property |-> "none", value |-> Zero]

NextMetrics ==
    \/ read_success_rate
    \/ read_avg_processing_time

(***************************************************************************)
(* One call of JobManager._batch_requests of the worker                    *)
(* (services/worker/core/manager.py:93-133) on any list of requests.       *)
(***************************************************************************)

\* the creation times of the requests handed to _batch_requests, in ms
CreatedAts == {k * TimeStepMs : k \in 0..MaxTimeSteps}

\* the lists _batch_requests may be given: requests with distinct ids, in
\* any order of creation time
RequestLists ==
    UNION {[1..n -> CreatedAts] : n \in 0..MaxBatchInput}

\* the list of JobRequests with the creation times ts
requests_at(ts) == [i \in 1..Len(ts) |-> [id |-> i, created_at |-> ts[i]]]

\* batches = await self._batch_requests(requests)
batch_requests_call ==
    /\ br_pc = "called"
    /\ br_pc' = "returned"
    /\ br_batches' = worker_batch_requests(br_requests)
    /\ UNCHANGED br_requests
    /\ UNCHANGED <<batcherVars, jobVars, mgrVars, rqVars, jmVars, loopVars, pollVars>>

\* no call of _batch_requests is followed
InitBatchRequests ==
    /\ br_pc = "idle"
    /\ br_requests = <<>>
    /\ br_batches = <<>>

NextBatchRequests == batch_requests_call

Init ==
    /\ InitBatcher /\ InitJob /\ InitManager /\ InitRq /\ InitJobMetrics /\ InitLoop
    /\ InitPoll /\ InitBatchRequests

\* _batch_requests is called with any list of requests
InitBatching ==
    /\ InitBatcher /\ InitJob /\ InitManager /\ InitRq /\ InitJobMetrics /\ InitLoop
    /\ InitPoll
    /\ br_pc = "called"
    /\ \E ts \in RequestLists : br_requests = requests_at(ts)
    /\ br_batches = <<>>

\* any JobMetrics instance, nothing read yet
InitMetrics ==
    /\ InitBatcher /\ InitJob /\ InitManager /\ InitRq /\ InitLoop /\ InitPoll
    /\ InitBatchRequests
    /\ jm \in JobMetricsValues
    /\ jm_read = [property |-> "none", value |-> Zero]

NextBatcher ==
    \/ process_request
    \/ purge
    \/ close
    \/ Tick

\* a request that arrives while the clock can still run for batch_window_ms
process_request_early ==
    /\ now + batch_window_ms <= MaxTicks * TickMs
    /\ process_request

\* the application before shutdown: requests arrive, time passes, and the
\* periodic purge task calls purge() every 0.1 s (main.py:80-87)
NextBatcherLive ==
    \/ process_request_early
    \/ purge
    \/ Tick

\* the application before shutdown, with a queue that may refuse a job
NextBatcherFaulty ==
    \/ process_request
    \/ process_request_enqueue_fails
    \/ purge
    \/ purge_enqueue_fails
    \/ Tick

SpecBatcher == Init /\ [][NextBatcher]_vars

SpecBatcherFaulty == Init /\ [][NextBatcherFaulty]_vars

\* the periodic purge task keeps running and time keeps passing
SpecBatcherLive ==
    Init /\ [][NextBatcherLive]_vars /\ WF_vars(purge) /\ WF_vars(Tick)

SpecJob == Init /\ [][NextJob]_vars

SpecJobReentry == Init /\ [][NextJobReentry]_vars

\* the same fairness as SpecJobFair, and the except block resumes
SpecJobRaising ==
    /\ Init /\ [][NextJobRaising]_vars
    /\ \A r \in Requests : WF_vars(task_next(r))
    /\ WF_vars(run_acquired) /\ WF_vars(run_gathered) /\ WF_vars(run_except_gathered)

\* the event loop runs every task and every coroutine that is ready, and the
\* awaited calls of the result processor and the generator come back
SpecJobFair ==
    /\ Init /\ [][NextJob]_vars
    /\ \A r \in Requests : WF_vars(task_next(r))
    /\ WF_vars(run_acquired) /\ WF_vars(run_gathered) /\ WF_vars(cancel_gathered)

SpecManager == Init /\ [][NextManager]_vars

\* the event loop runs run(), shutdown() and the tasks of every Job whenever
\* they are ready, and the calls to Redis come back
SpecManagerFair ==
    /\ Init /\ [][NextManager]_vars
    /\ \A j \in JobIds : WF_vars(pj_next(j))
    /\ WF_vars(mgr_got_requests) /\ WF_vars(mgr_acquired) /\ WF_vars(mgr_wakes)
    /\ WF_vars(mgr_shutdown_gathered) /\ WF_vars(mgr_shutdown_closed)

\* the worker JobManager with Jobs whose run() may raise
pj_raises == \E j \in JobIds : pj_run_raises(j)

NextManagerRaising == NextManager \/ pj_raises

SpecManagerRaising == Init /\ [][NextManagerRaising]_vars

SpecDispatch == Init /\ [][NextDispatch]_vars

SpecMetrics == InitMetrics /\ [][NextMetrics]_vars

SpecBatching == InitBatching /\ [][NextBatchRequests]_vars

SpecLoop == Init /\ [][NextLoop]_vars

\* every handler keeps polling, the RQ worker and the purge task keep running
SpecStream ==
    /\ Init /\ [][NextStream]_vars
    /\ \A r \in RequestIds : WF_vars(poll_step(r))
    /\ WF_vars(rq_start \/ pp_step \/ rq_finish)
    /\ WF_vars(purge) /\ WF_vars(Tick)

(***************************************************************************)
(* Properties of the batcher JobManager                                    *)
(***************************************************************************)

\* number of places where request rid occurs in the enqueued batches
Occurrences(rid) ==
    Cardinality({ij \in (1..Len(enqueued)) \X (1..max_requests_per_job + 1) :
                    /\ ij[2] <= Len(enqueued[ij[1]])
                    /\ enqueued[ij[1]][ij[2]].id = uuid_str(rid)})

InCurrentBatch(rid) ==
    \E i \in 1..Len(batch_requests(batch)) : batch_requests(batch)[i].id = rid

LastEnqueued == enqueued[Len(enqueued)]

\* C1: every request accepted by process_request is handed to the queue's
\* enqueue in exactly one batch: never in two, and a request found in no
\* enqueued batch is still held by the current batch (it is not lost).
C1_ExactlyOneBatch ==
    \A i \in 1..Len(accepted) :
        /\ Occurrences(accepted[i]) <= 1
        /\ Occurrences(accepted[i]) = 0 => InCurrentBatch(accepted[i])

\* C2: the process_request call that brings the current batch to
\* max_requests_per_job requests has enqueued that batch when it returns:
\* the last enqueued batch holds exactly max_requests_per_job requests, ends
\* with the request of this call, and no current batch remains.
C2_SizeTrigger ==
    (bcall.op = "process_request" /\ ~bcall.raised
        /\ bcall.size_after_add = max_requests_per_job)
    => /\ batch = <<>>
       /\ enqueued # <<>>
       /\ Len(LastEnqueued) = max_requests_per_job
       /\ LastEnqueued[max_requests_per_job].id = uuid_str(bcall.rid)

\* the size trigger fired with zero elapsed time
C2_Witness ==
    /\ bcall.op = "process_request"
    /\ bcall.size_after_add = max_requests_per_job
    /\ bcall.enq = 1
    /\ now = 0
    /\ batch = <<>>

\* C3: a purge call made when the age of the batch has reached batch_window
\* enqueues exactly one batch holding exactly the requests accumulated so far
\* (even a single one) and leaves no current batch; a purge call made while the
\* age is below batch_window and the batch is not full enqueues nothing.
C3_AgeTrigger ==
    [][ bcall'.op = "purge" /\ has_batch(batch) =>
          IF now - batch[1].created_at >= batch_window_ms
          THEN /\ Len(enqueued') = Len(enqueued) + 1
               /\ SubSeq(enqueued', 1, Len(enqueued)) = enqueued
               /\ Len(enqueued'[Len(enqueued')]) = Len(batch[1].requests)
               /\ \A i \in 1..Len(batch[1].requests) :
                    enqueued'[Len(enqueued')][i].id = uuid_str(batch[1].requests[i].id)
               /\ batch' = <<>>
          ELSE Len(batch[1].requests) < max_requests_per_job
                  => enqueued' = enqueued /\ batch' = batch ]_vars

\* a purge call has dispatched a batch of a single request by age
C3_Witness ==
    /\ bcall.op = "purge"
    /\ bcall.enq = 1
    /\ Len(LastEnqueued) = 1
    /\ batch = <<>>
    /\ now >= batch_window_ms

\* C4: close() on a current batch of k >= 1 requests that is below the size
\* and age thresholds enqueues exactly one batch, holding exactly those k
\* requests in arrival order.
C4_ShutdownFlush ==
    [][ ( /\ bcall'.op = "close"
          /\ has_batch(batch)
          /\ Len(batch[1].requests) >= 1
          /\ Len(batch[1].requests) < max_requests_per_job
          /\ now - batch[1].created_at < batch_window_ms )
        => /\ Len(enqueued') = Len(enqueued) + 1
           /\ SubSeq(enqueued', 1, Len(enqueued)) = enqueued
           /\ Len(enqueued'[Len(enqueued')]) = Len(batch[1].requests)
           /\ \A i \in 1..Len(batch[1].requests) :
                enqueued'[Len(enqueued')][i].id = uuid_str(batch[1].requests[i].id) ]_vars

\* close() has flushed a batch of two requests that was not yet ready
C4_Witness ==
    /\ bcall.op = "close"
    /\ bcall.enq = 1
    /\ has_batch(batch)
    /\ Len(LastEnqueued) = 2
    /\ batch_size(batch) = 2
    /\ now - batch[1].created_at < batch_window_ms

\* the ids of the requests of the enqueued batches, in enqueue order
RECURSIVE EnqueuedIds(_)
EnqueuedIds(q) ==
    IF q = <<>> THEN <<>>
    ELSE EnqueuedIds(SubSeq(q, 1, Len(q) - 1)) \o
         [i \in 1..Len(q[Len(q)]) |-> q[Len(q)][i].id]

AcceptedIds == [i \in 1..Len(accepted) |-> uuid_str(accepted[i])]

CurrentIds == [i \in 1..Len(batch_requests(batch)) |-> uuid_str(batch_requests(batch)[i].id)]

IsPrefix(p, q) == Len(p) <= Len(q) /\ SubSeq(q, 1, Len(p)) = p

\* C11: the enqueued batches, concatenated in enqueue order, are the accepted
\* requests in the order process_request accepted them: a prefix of that
\* sequence while a current batch holds the rest, all of it otherwise.
C11_ArrivalOrder ==
    /\ IsPrefix(EnqueuedIds(enqueued), AcceptedIds)
    /\ ~has_batch(batch) => EnqueuedIds(enqueued) = AcceptedIds

\* C12: as long as the periodic purge task runs and time passes, a request
\* held by the current batch is eventually enqueued, with no further arrival
\* and without the batch becoming full.
C12_AgeLiveness ==
    \A rid \in 1..MaxRequests : InCurrentBatch(rid) ~> (Occurrences(rid) >= 1)

\* the periodic purge has dispatched a batch of two requests, below the size
\* threshold, after the last arrival
C12_Witness ==
    /\ bcall.op = "purge"
    /\ bcall.enq = 1
    /\ Len(LastEnqueued) = 2
    /\ 2 < max_requests_per_job
    /\ closes = 0
    /\ batch = <<>>

\* C13: once close() has enqueued the current batch, that batch is no longer
\* the current batch.
C13_CloseSeals ==
    (bcall.op = "close" /\ bcall.enq = 1) => ~has_batch(batch)

\* C14: with no current batch, purge() and close() enqueue nothing and leave
\* the batcher without a current batch.
C14_EmptyNoOp ==
    [][ (bcall'.op \in {"purge", "close"} /\ ~has_batch(batch))
        => (enqueued' = enqueued /\ ~has_batch(batch')) ]_vars

\* close() was called after the last dispatch, with no current batch
C14_Witness ==
    /\ bcall.op = "close"
    /\ bcall.enq = 0
    /\ ~has_batch(batch)
    /\ enqueued # <<>>

\* the prompts held by the current batch and by the enqueued batches
HeldPrompts ==
    {batch_requests(batch)[i].prompt : i \in 1..Len(batch_requests(batch))}
    \cup UNION {{enqueued[i][j].prompt : j \in 1..Len(enqueued[i])} : i \in 1..Len(enqueued)}

\* C15: a process_request call with an empty prompt raises, and its request
\* is neither in the current batch nor in an enqueued batch, then or later;
\* a call with a non-empty prompt does not raise and has appended its request
\* (which is in the current batch, or in the batch the call enqueued).
C15_AdmissionState ==
    /\ "" \notin HeldPrompts
    /\ \A rid \in 1..(next_rid - 1) :
         (\A i \in 1..Len(accepted) : accepted[i] # rid)
         => (~InCurrentBatch(rid) /\ Occurrences(rid) = 0)
    /\ bcall.op = "process_request" =>
         /\ bcall.raised <=> (bcall.prompt = "")
         /\ ~bcall.raised =>
              /\ accepted # <<>> /\ accepted[Len(accepted)] = bcall.rid
              /\ \/ InCurrentBatch(bcall.rid)
                 \/ (bcall.enq = 1 /\ LastEnqueued[Len(LastEnqueued)].id = uuid_str(bcall.rid))

\* C15, second part: a call that raises creates no current batch where none
\* existed.
C15_Validation ==
    []C15_AdmissionState
    /\ [][ (bcall'.op = "process_request" /\ bcall'.raised /\ ~has_batch(batch))
           => ~has_batch(batch') ]_vars

\* a call with an empty prompt raised while no current batch existed, after
\* earlier requests had been accepted and dispatched
C15_Witness ==
    /\ bcall.op = "process_request"
    /\ bcall.raised
    /\ bcall.prompt = ""
    /\ ~has_batch(batch)
    /\ enqueued # <<>>

(***************************************************************************)
(* Properties of the statuses written by the RQ worker (SpecDispatch)      *)
(***************************************************************************)

\* C16: once the status of a request id is COMPLETED or FAILED, no later
\* operation changes it.
C16_StatusMonotonic ==
    [][ \A r \in RequestIds :
          redis_status[r] \in {"completed", "failed"} => redis_status'[r] = redis_status[r] ]_vars

(***************************************************************************)
(* Properties of JobMetrics (SpecMetrics)                                  *)
(***************************************************************************)

\* the fraction f is the quotient a / b (b > 0), in lowest terms
IsQuotient(f, a, b) ==
    /\ f[2] > 0
    /\ f[1] * b = a * f[2]
    /\ \A d \in 2..MaxMetric : ~(f[1] % d = 0 /\ f[2] % d = 0)

\* C17: success_rate and avg_processing_time are 0 when total_requests = 0,
\* and otherwise successful_requests / total_requests and
\* total_processing_time / total_requests.
C17_MetricsRatios ==
    /\ jm_read.property = "success_rate" =>
         IF jm.total_requests = 0 THEN jm_read.value = <<0, 1>>
         ELSE IsQuotient(jm_read.value, jm.successful_requests, jm.total_requests)
    /\ jm_read.property = "avg_processing_time" =>
         IF jm.total_requests = 0 THEN jm_read.value = <<0, 1>>
         ELSE IsQuotient(jm_read.value, jm.total_processing_time, jm.total_requests)

\* success_rate read 0 on a JobMetrics with total_requests = 0 and a
\* non-zero numerator
C17_Witness ==
    /\ jm_read.property = "success_rate"
    /\ jm.total_requests = 0
    /\ jm.successful_requests > 0
    /\ jm_read.value = <<0, 1>>

(***************************************************************************)
(* Properties of the worker Job                                            *)
(***************************************************************************)

\* the requests whose process_request entered its `except Exception` handler
FailedRequests == {r \in Requests : task_pc[r] \in {"mark_error", "returned_err", "raised"}}

\* the result-processor calls made for request r
Called(r) == {rp_log[r][i] : i \in 1..Len(rp_log[r])}

RunReturned == job_results # <<>>

LastResult == job_results[Len(job_results)]

\* C6: once cancel() and run() have returned, every request that was in
\* flight when cancel() was called (its task was live and had called
\* initialize_result) is in a terminal state in the result processor, and
\* run() returned status CANCELLED.
C6_CancelLeavesTerminal ==
    (cancel_calls = 1 /\ cancel_pc = "idle" /\ is_cancelled /\ RunReturned)
    => /\ LastResult.status = "cancelled"
       /\ \A r \in cancel_wait :
            "initialize" \in Called(r) => rp_status[r] \in {"completed", "failed"}

\* C7: when run() returns without cancellation and without an orchestration
\* error, with f the number of requests that failed: the status is FAILED iff
\* f = K, PARTIALLY_COMPLETED iff 0 < f < K, COMPLETED iff f = 0.
C7_TerminalStatus ==
    (RunReturned /\ ~is_cancelled /\ LastResult.error = "none")
    => LET f == Cardinality(FailedRequests)
       IN  /\ (LastResult.status = "failed") <=> (f = NumRequests)
           /\ (LastResult.status = "partially_completed") <=> (0 < f /\ f < NumRequests)
           /\ (LastResult.status = "completed") <=> (f = 0)
           /\ NumRequests >= 1

\* run() returned PARTIALLY_COMPLETED for a batch in which some, not all,
\* requests failed
C7_Witness ==
    /\ RunReturned
    /\ ~is_cancelled
    /\ LastResult.status = "partially_completed"
    /\ Cardinality(FailedRequests) = 1

\* C8: as long as nobody calls cancel(), the failure of a request cancels
\* nothing (the cancellation flag stays unset, no task is cancelled), the
\* failing requests alone are counted in failed_requests and marked via
\* mark_error, and when run() returns every request has been launched and
\* has run to its own end, with no error in the JobResult.
C8_FailureIsolation ==
    cancel_calls = 0
    => /\ ~is_cancelled
       /\ \A r \in Requests : ~must_cancel[r] /\ task_pc[r] # "cancelled"
       /\ metrics.failed_requests = Cardinality(FailedRequests)
       /\ \A r \in Requests : ("mark_error" \in Called(r)) <=> (r \in FailedRequests)
       /\ RunReturned =>
            /\ \A r \in Requests : task_pc[r] \in {"returned_ok", "returned_err", "raised"}
            /\ LastResult.error = "none"

\* one request failed in initialize_result, its siblings completed, run() returned
C8_Witness ==
    /\ RunReturned
    /\ cancel_calls = 0
    /\ rp_log[1] = <<"initialize", "mark_error">>
    /\ \A r \in Requests \ {1} : task_pc[r] = "returned_ok" /\ rp_status[r] = "completed"
    /\ metrics.failed_requests = 1

\* C9: the number of process_request tasks launched and not finished never
\* exceeds max_concurrent_requests; a request beyond the budget is not
\* launched while the budget is used up, and is launched later: when run()
\* returns without cancellation every request has been launched.
C9_WorkerBudget ==
    /\ Cardinality(active_tasks(task_pc)) <= max_concurrent_requests
    /\ (RunReturned /\ ~is_cancelled) => \A r \in Requests : task_pc[r] # "none"

\* the budget is used up and run() waits for a slot for a further request
C9_Witness ==
    /\ run_pc = "acquire"
    /\ ~request_semaphore.granted
    /\ Cardinality(active_tasks(task_pc)) = max_concurrent_requests
    /\ task_pc[run_idx] = "none"
    /\ NumRequests > max_concurrent_requests

\* C10: a Job enters Running at most once: no run() call after the first one
\* passes the _is_running guard.
C10_RunningOnce == run_calls <= 1


\* C20: every slot of _request_semaphore that is taken is released again, so
\* run() never waits in acquire while no slot is free, none has been handed
\* to it, and no task is left that could release one.
C20_BudgetRelease ==
    (run_pc = "acquire" /\ ~request_semaphore.granted)
    => active_tasks(task_pc) # {}


(***************************************************************************)
(* Worker JobManager properties (checked under SpecManager)                *)
(***************************************************************************)

\* the Jobs that are inside job.run()
RunningJobs == {j \in JobIds : jobs[j].state \in {"started", "running", "stuck"}}

\* C5: with max_concurrent_jobs = M, the active-job set never holds more than
\* M Jobs and never more than M Jobs are running at the same time, however
\* many batches one poll yields.
C5_ConcurrencyCeiling ==
    /\ Cardinality(active_jobs) <= max_concurrent_jobs
    /\ Cardinality(RunningJobs) <= max_concurrent_jobs

\* the ceiling is reached, every active Job is running, and a further batch
\* of the same poll waits for a slot
C5_Witness ==
    /\ Cardinality(active_jobs) = max_concurrent_jobs
    /\ RunningJobs = active_jobs
    /\ mgr_pc = "acquire"
    /\ pending_batches # <<>>


\* C18: when shutdown() has returned, no Job that was in _active_jobs when it
\* was called is still inside run(), and a Job whose run() had not started at
\* that time has not run its requests to normal completion.
C18_ShutdownCancelsAll ==
    shutdown_pc = "done"
    => \A j \in shutdown_jobs :
         /\ j \notin RunningJobs
         /\ j \in shutdown_unstarted => jobs[j].outcome # "finished"

\* the slots of _job_semaphore that are free or handed to the waiting run()
FreeSlots == job_semaphore.value + (IF job_semaphore.granted THEN 1 ELSE 0)

\* C19: every slot of _job_semaphore that _process_batch acquired is held by
\* an active Job or has been released: free slots and active Jobs add up to
\* max_concurrent_jobs, so with no active Job every slot is free, and the
\* free slots never exceed max_concurrent_jobs.
C19_SlotRelease ==
    /\ FreeSlots + Cardinality(active_jobs) = max_concurrent_jobs
    /\ FreeSlots <= max_concurrent_jobs

(***************************************************************************)
(* Concurrent callers of the batcher on the event loop                     *)
(***************************************************************************)

\* a coroutine is between the enqueue of purge() and its _clear_batch()
Sealing(c) == co_pc[c] \in {"clear1", "clear2", "clear"}

\* C21: atomic seal-and-swap. Under any interleaving of concurrent
\* process_request callers and the periodic purge task, no batch is enqueued
\* twice (no request occurs in two enqueued batches), and between the enqueue
\* of purge() and the clearing of the batch no other coroutine runs and no
\* request is appended: the current batch is still exactly the batch that was
\* enqueued, so every accepted request is in the current batch or enqueued.
C21_SealAndSwap ==
    /\ \A rid \in Callers : Occurrences(rid) <= 1
    /\ \A c \in Coroutines :
         Sealing(c) => /\ loop_owner = {c}
                       /\ enqueued # <<>>
                       /\ requests_data(batch_requests(batch)) = LastEnqueued
    /\ \A i \in 1..Len(accepted) :
         InCurrentBatch(accepted[i]) \/ Occurrences(accepted[i]) = 1

\* a purge has enqueued a ready batch and not yet cleared it while another
\* handler is waiting to call process_request and the purge task is alive
C21_Witness ==
    \E c \in Callers, d \in Callers :
        /\ c # d
        /\ Sealing(c)
        /\ co_pc[d] = "purge1"
        /\ Len(batch_requests(batch)) >= 2

\* ids of the requests of Job j
JobRequestIds(j) == {jobs[j].requests[i].id : i \in 1..Len(jobs[j].requests)}

\* Jobs created and not yet through the finally block of _process_job
LiveJobs == {j \in JobIds : jobs[j].state \notin {"none", "done"}}

\* C22: across the iterations of the polling loop a request read from the
\* source is handed to exactly one Job: no two Jobs that are alive hold the same
\* request, and no Job is created for a request that an earlier Job has already
\* marked processed.
C22_ExactlyOneJob ==
    /\ \A j1 \in LiveJobs, j2 \in LiveJobs :
         j1 # j2 => JobRequestIds(j1) \cap JobRequestIds(j2) = {}
    /\ \A j \in LiveJobs : \A id \in JobRequestIds(j) : uuid_str(id) \notin src_processed

(***************************************************************************)
(* The streaming loop of the handler (SpecStream)                          *)
(***************************************************************************)

\* C23: streaming poller termination. For every request whose status in the
\* data interactor becomes COMPLETED or FAILED, whatever finite output the
\* generator gave (also none at all), the polling loop of the handler
\* eventually sends an event carrying a terminal status and stops, unless the
\* client disconnects.
C23_PollerTerminates ==
    \A r \in RequestIds :
        Terminal(redis_status[r])
            ~> (\/ poll_pc[r] = "stopped" /\ Terminal(poll_last[r])
                \/ poll_pc[r] = "closed")

\* C24: run() always terminates with exactly one JobResult for the batch,
\* under fair scheduling and finite generators, whenever cancel() arrives:
\* a run() that was entered eventually returns, and never returns twice.
C24_RunTerminates ==
    /\ [](Len(job_results) <= 1)
    /\ (run_calls = 1) ~> (Len(job_results) = 1 /\ run_pc = "idle")

\* requests for which run() has created no task
NotLaunched == {r \in Requests : task_pc[r] = "none"}

\* C25: once cancellation has been requested (_is_cancelled is set), run()
\* launches no further task: a request not launched at that moment stays
\* without a task and is never initialized in the result processor, and when
\* run() comes back from acquire with a slot it gives the slot back at once.
C25_NoLaunchAfterCancel ==
    /\ [](\A r \in NotLaunched : rp_log[r] = <<>> /\ rp_status[r] = "absent")
    /\ [][is_cancelled =>
            /\ \A r \in NotLaunched : task_pc'[r] = "none"
            /\ (run_pc = "acquire" /\ run_pc' # "acquire")
                 => /\ request_semaphore.granted
                    /\ request_semaphore'.value = request_semaphore.value + 1
                    /\ ~request_semaphore'.granted]_vars

\* a cancelled run() has returned, a request was never launched, and every slot
\* of the budget is free again
C25_Witness ==
    /\ is_cancelled
    /\ Len(job_results) = 1
    /\ run_idx <= NumRequests
    /\ NotLaunched # {}
    /\ request_semaphore.value = max_concurrent_requests

\* C26: within a Job requests are admitted in arrival order: the requests
\* run() has acquired a slot and created a task for are always the first ones
\* of the batch, so that for i < j the task of i exists before that of j;
\* nothing orders the completions.
C26_AdmissionOrder ==
    /\ NotLaunched = {r \in Requests : r >= run_idx}
    /\ \A i \in Requests, j \in Requests :
         (i < j /\ task_pc[j] # "none") => task_pc[i] # "none"

\* the last request has been admitted after a later request finished before
\* an earlier one
C26_Witness ==
    /\ TaskLive(task_pc[1]) /\ task_pc[1] # "created"
    /\ TaskDone(task_pc[2])
    /\ task_pc[NumRequests] # "none"

\* the result-processor calls made for request r include call
Logged(r, call) == \E i \in 1..Len(rp_log[r]) : rp_log[r][i] = call

\* C27: when a Job is cancelled, every request whose generation was not
\* consumed to exhaustion resolves to Failed in the result processor through
\* mark_error; none of them is finalized as Completed and none is counted in
\* successful_requests.
C27_CancelledRequestsFail ==
    \A r \in Requests :
        (is_cancelled /\ task_pc[r] = "cancelled" /\ gen_left[r] > 0)
            => /\ Logged(r, "mark_error")
               /\ rp_status[r] = "failed"
               /\ ~Logged(r, "finalize")

\* run() returns in this step out of its except block
RaisedReturn ==
    /\ run_pc' = "idle"
    /\ \/ run_pc = "except_cancel"
       \/ run_pc = "idle" /\ run_calls' = run_calls + 1
       \/ run_pc = "acquire" /\ ~is_cancelled /\ is_cancelled'

\* C28: an exception raised in the orchestration loop of run() itself makes
\* run() call cancel() (the Job is cancelled and every live task is told to
\* stop), wait until every launched task has stopped, and return a JobResult
\* FAILED that carries the error; run() ends normally (_is_running is reset).
C28_LoopErrorHandled ==
    /\ [](run_pc = "except_cancel"
            => /\ is_running /\ is_cancelled
               /\ \A r \in active_tasks(task_pc) : must_cancel[r])
    /\ [][RaisedReturn
            => /\ job_results' = Append(job_results, JobResult("failed", "error", metrics))
               /\ ~is_running'
               /\ is_cancelled'
               /\ active_tasks(task_pc') = {}]_vars
    /\ (run_pc = "except_cancel") ~> (run_pc = "idle" /\ Len(job_results) = 1)

\* the loop raised while a started task was running: the task was cancelled
\* and run() returned the error result
C28_Witness ==
    /\ run_pc = "idle"
    /\ Len(job_results) = 1
    /\ job_results[1].error = "error"
    /\ \E r \in Requests : task_pc[r] = "cancelled" /\ Logged(r, "initialize")
    /\ \E r \in Requests : task_pc[r] = "returned_ok"

\* slots that are free or held by an active Job
SlotsAccounted == FreeSlots + Cardinality(active_jobs)

\* the step of _process_batch in which a slot is taken and no Job is added to
\* _active_jobs: the creation or the launch of the Job failed
LaunchFailed == SlotsAccounted' < SlotsAccounted

\* C29: a failure while constructing or launching a Job inside _process_batch
\* does not terminate run(): after the failed launch the polling loop goes on
\* (run() has not stopped and _is_running stays set).
C29_FailureKeepsRunning ==
    [][LaunchFailed => /\ mgr_pc' # "stopped"
                       /\ mgr_is_running']_vars

(***************************************************************************)
(* The batcher with a failing queue (SpecBatcherFaulty)                    *)
(***************************************************************************)

\* C30: a failure of the queue's enqueue while a ready batch is dispatched is
\* never propagated to the caller of process_request: the call with a valid
\* prompt returns normally, its request is accepted, and no accepted request is
\* lost (each is still in the current batch or in an enqueued batch).
C30_EnqueueFailureContained ==
    /\ (bcall.op = "process_request" /\ JobRequest_valid(bcall.prompt))
         => /\ ~bcall.raised
            /\ \E i \in 1..Len(accepted) : accepted[i] = bcall.rid
    /\ \A i \in 1..Len(accepted) :
         InCurrentBatch(accepted[i]) \/ Occurrences(accepted[i]) >= 1

\* the ids of the requests of Job j, as mark_processed adds them to the set
MarkedIds(j) == {uuid_str(id) : id \in JobRequestIds(j)}

\* Job j leaves _process_job in this step
JobFinishes(j) == jobs[j].state # "done" /\ jobs'[j].state = "done"

\* C31: when a Job finishes, whether run() returned or raised, _process_job
\* marks its requests as processed (unless mark_processed itself fails, which
\* leaves the set as it was), removes the Job from _active_jobs and releases the
\* global slot; the processed set only grows by the requests of a Job whose
\* run() is over.
C31_CompletionBookkeeping ==
    [][/\ \A j \in JobIds :
            JobFinishes(j)
                => /\ j \in active_jobs /\ j \notin active_jobs'
                   /\ FreeSlots' = FreeSlots + 1
                   /\ \/ MarkedIds(j) \subseteq src_processed'
                      \/ jobs[j].state = "marking" /\ src_processed' = src_processed
       /\ src_processed' # src_processed
            => \E j \in JobIds : /\ jobs[j].state = "marking"
                                 /\ src_processed' = src_processed \cup MarkedIds(j)]_vars

\* C32: run() of the worker JobManager terminates once shutdown is signalled:
\* with the shutting-down flag set, a running run() eventually returns with
\* _is_running reset, also when it was waiting for a global slot in
\* _process_batch.
C32_RunStopsOnShutdown ==
    (mgr_is_shutting_down /\ mgr_is_running)
        ~> (mgr_pc = "stopped" /\ ~mgr_is_running)

\* the current batch of the next state is the one of this state: it still
\* starts with the same request
SameBatch ==
    /\ has_batch(batch) /\ has_batch(batch')
    /\ batch[1].requests[1] = batch'[1].requests[1]

\* C33: the age of a batch of the batcher JobManager runs from the insertion
\* of its first request. A current batch is never empty and no empty batch is
\* enqueued; created_at is set to the time of the process_request call that
\* appends the first request of a batch and never changes while that batch is
\* current; so a request that arrives when there is no current batch starts
\* a batch of age 0 and is not dispatched by that call, however long the
\* batcher had been idle.
C33_AgeFromFirstInsertion ==
    /\ [](/\ has_batch(batch) => (batch_size(batch) >= 1 /\ batch[1].created_at <= now)
          /\ \A i \in 1..Len(enqueued) : enqueued[i] # <<>>)
    /\ [][/\ has_batch(batch')
             => IF SameBatch
                THEN batch'[1].created_at = batch[1].created_at
                ELSE /\ bcall'.op = "process_request" /\ ~bcall'.raised
                     /\ batch'[1].created_at = now
                     /\ batch_age(batch', now') = 0
          /\ (bcall'.op = "process_request" /\ ~bcall'.raised
                /\ bcall'.size_after_add = 1 /\ max_requests_per_job > 1)
             => /\ has_batch(batch') /\ batch_size(batch') = 1
                /\ batch'[1].requests[1].id = bcall'.rid
                /\ bcall'.enq <= 1
                /\ bcall'.enq = 1 => has_batch(batch)]_vars

\* a request arrived after the batcher had been idle, without a current batch,
\* for a whole window: it started a batch created at that time, which the
\* call did not dispatch
C33_Witness ==
    /\ bcall.op = "process_request" /\ ~bcall.raised
    /\ bcall.size_after_add = 1
    /\ bcall.enq = 0
    /\ enqueued # <<>>
    /\ now >= batch_window_ms + TickMs
    /\ has_batch(batch)
    /\ batch[1].created_at = now

\* process_batch of the job in hand is over in the next state: its finally
\* block has closed the data interactor and asyncio.run has returned
BatchEnds == rq_pc = "running" /\ rq_pc' = "idle"

\* C34: a failing process_prompt does not stop its siblings in process_batch:
\* when the batch ends and the data interactor is closed, every process_prompt
\* of the batch has run to its own end (it returned, or it failed and wrote
\* its error), and a request whose process_prompt returned is COMPLETED.
C34_FailureIsolation ==
    [][BatchEnds
        => \A r \in rq_job_ids :
              /\ pp_pc[r] \in {"returned", "raised"}
              /\ pp_pc[r] = "returned" => redis_status[r] = "completed"]_vars

\* the calls of a log are in the order initialize, append ..., then at most
\* one of finalize / mark_error as the last call
WellOrdered(log) ==
    /\ log # <<>> => log[1] = "initialize"
    /\ \A i \in 2..Len(log) : log[i] # "initialize"
    /\ \A i \in 1..Len(log) : log[i] \in {"finalize", "mark_error"} => i = Len(log)

\* C35: the calls process_request makes to the result processor for one
\* request start with initialize_result, append_result comes only after it
\* and never after finalize_result or mark_error, and at most one of
\* finalize_result / mark_error is called, as the last call.
C35_CallOrder == \A r \in Requests : WellOrdered(rp_log[r])

\* request r was counted in successful_requests (the count is made right
\* before the finalize_result call) / in failed_requests (right before
\* mark_error)
CountedSuccessful(r) == \E i \in 1..Len(rp_log[r]) : rp_log[r][i] = "finalize"

CountedFailed(r) == \E i \in 1..Len(rp_log[r]) : rp_log[r][i] = "mark_error"

\* C38: the metrics of a Job count each request at most once: the two
\* counters never add up to more than total_requests, no request is counted
\* in both, and the metrics of a result returned by run() without
\* cancellation add up to total_requests.
C38_CountedOnce ==
    /\ metrics.successful_requests + metrics.failed_requests <= metrics.total_requests
    /\ \A r \in Requests : ~(CountedSuccessful(r) /\ CountedFailed(r))
    /\ \A i \in 1..Len(job_results) :
          job_results[i].status # "cancelled"
          => job_results[i].metrics.successful_requests
               + job_results[i].metrics.failed_requests
             = job_results[i].metrics.total_requests

\* the batches of bs laid end to end
RECURSIVE Flatten(_)
Flatten(bs) == IF bs = <<>> THEN <<>> ELSE Head(bs) \o Flatten(Tail(bs))

Span(b) ==
    LET ts == {b[k].created_at : k \in 1..Len(b)}
    IN  (CHOOSE hi \in ts : \A t \in ts : t <= hi)
          - (CHOOSE lo \in ts : \A t \in ts : lo <= t)

\* C37: _batch_requests respects the batch window: in every batch returned,
\* the latest creation time minus the earliest is at most batch_window, also
\* in a batch that follows a batch closed because it was full.
C37_WindowRespected ==
    br_pc = "returned"
    => \A b \in 1..Len(br_batches) : Span(br_batches[b]) <= worker_batch_window_ms

\* a batch closed because it was full is followed by a batch that spans the
\* whole window, and a later request fell out of the window
C37_Witness ==
    /\ br_pc = "returned"
    /\ \E b \in 1..(Len(br_batches) - 1) :
          /\ Len(br_batches[b]) = worker_max_requests_per_job
          /\ Span(br_batches[b + 1]) = worker_batch_window_ms

\* C39: the events of the streaming loop are consistent: when the last event
\* sent for a request carries the status completed, the text in it is the
\* whole response stored for the request.
C39_CompletedTextWhole ==
    \A r \in RequestIds :
        poll_last[r] = "completed" => poll_text[r] = <<redis_response[r]>>

\* C40: once shutdown() has set the shutting-down flag, run() creates and
\* starts no new Job, also when it was waiting for a slot in _process_batch;
\* and when shutdown() and run() have both returned, _active_jobs is empty
\* and no Job is executing.
C40_NoJobAfterShutdown ==
    /\ [][mgr_is_shutting_down => n_jobs(jobs') = n_jobs(jobs)]_vars
    /\ [](shutdown_pc = "done" /\ mgr_pc = "stopped"
            => /\ active_jobs = {}
               /\ \A j \in JobIds : jobs[j].state \in {"none", "done"})

====
